---- MODULE Spec2Model ----
(***************************************************************************)
(* Live coaching session engine of MCai: the useLiveSession hook           *)
(* (connection lifecycle, outbound sends, audio playback scheduling) and   *)
(* the live pose store (caption aggregation).                              *)
(*                                                                         *)
(* Every call of connect() is an "attempt" a \in Attempts.  The audio      *)
(* context, the microphone stream and the WebSocket that the call creates  *)
(* are named by the attempt's number, so a ref of the hook (wsRef,         *)
(* audioContextRef, streamRef) holds an attempt number, or NoRef for null. *)
(* connect() is an async function: pc[a] is the await at which attempt a   *)
(* is suspended.  Browser events (promise settlements, WebSocket open and  *)
(* close events) are separate actions, so they interleave with the calls   *)
(* of the hook's API exactly as tasks of the event loop do.                *)
(***************************************************************************)
EXTENDS Integers, Sequences, FiniteSets, TLC

\* ---- bounds of the model ----
MaxConnects == 2      \* connect() calls that get past the guard
MaxWire == 1          \* frames recorded on the wire
MaxAudioTime == 3     \* audio clock horizon, in sample periods
MaxBacklog == 2       \* audio frames are taken while the playback cursor is
                      \* at most this far ahead of the context's clock
MaxCaptionTicks == 8  \* wall clock horizon of the caption, in steps of TickMs
MaxCaptionLen == 6    \* appendSubtitle is called while the caption that
                      \* results has at most this many characters
MaxInbound == 3       \* inbound messages in one burst
bufferSize == 4       \* this.bufferSize of the capture processor, which is
                      \* 4096 in audio-processor.js: the window of the model
                      \* is shorter, the code is the same for every size
MaxBlock == 5         \* samples in one block handed to process()
MaxCaptured == 10     \* samples fed to the capture processor in all
MaxFeedbackCalls == 4 \* addFeedback calls
MaxFeedbackTicks == 5 \* wall clock horizon of the feedback queue, in steps of
                      \* FeedbackTickMs
MaxGridIndex == 52    \* the samples given to the codec are GridStep * j / GridDen
                      \* for j in -MaxGridIndex..MaxGridIndex, and -1 and 1
MaxCodecLen == 2      \* samples in one array given to floatTo16BitPCM

Attempts == 1..MaxConnects
NoRef == 0

StatusValues == {"disconnected", "connecting", "connected", "error"}
CloseCodes == {1000, 1008, 1011}
SendTypes == {"image", "pose", "set_target_pose"}

VARIABLES
  \* --- useLiveSession: React state and refs ---
  status,            \* useState<LiveStatus>
  wsRef,             \* wsRef.current
  audioContextRef,   \* audioContextRef.current
  streamRef,         \* streamRef.current
  isDisconnecting,   \* isDisconnectingRef.current
  \* --- the connect() calls and the objects they created ---
  nAttempts,         \* connect() calls that ran past the guard so far
  pc,                \* pc[a]: where attempt a's connect() is
  ctxState,          \* ctxState[a]: AudioContext.state of attempt a's context
  streamState,       \* streamState[a]: attempt a's MediaStream tracks
  wsState,           \* wsState[a]: WebSocket.readyState of attempt a's socket
  oncloseSet,        \* oncloseSet[a]: the socket's onclose handler is installed
  pipe,              \* pipe[a]: where attempt a's startAudioCapture() is
  processor,         \* processor[a]: what addModule('/audio-processor.js') did
  wsCloseCalls,      \* wsCloseCalls[a]: calls of WebSocket.close() on the socket
  ctxCloseCalls,     \* ctxCloseCalls[a]: calls of AudioContext.close()
  streamStops,       \* streamStops[a]: times the stream's tracks were stopped
  wire,              \* frames written with WebSocket.send(), in order
  \* --- audio playback (useLiveSession.playAudioChunk, useLivePoseStore) ---
  audioTime,         \* real time elapsed, in sample periods of 1/24000 s
  ctxTime,           \* ctxTime[a]: AudioContext.currentTime of a's context
  nextStartTime,     \* nextStartTimeRef.current
  lastStart,         \* the latest source.start(at) call, or NoStart
  audioLevel,        \* store.audioLevel, in hundredths, or NaN
  isSpeaking,        \* store.isSpeaking
  resetTimers,       \* due times of the pending level/speaking reset timeouts
  \* --- caption (useLivePoseStore: appendSubtitle, clearSubtitle) ---
  now,               \* Date.now(), in ms
  subtitleText,      \* store.subtitleText, a sequence of characters
  subtitleVisible,   \* store.subtitleVisible
  subtitleLastUpdate,\* store.subtitleLastUpdate
  subtitleTimeout,   \* due time of the timeout subtitleTimeoutId names, while
                     \* it is pending; NoTimer otherwise
  purgeTimers,       \* due times of the pending inner (text purge) timeouts
  \* --- feedback queue (useLivePoseStore: addFeedback, ...) ---
  feedbackQueue,     \* store.feedbackQueue, newest item first
  lastAiFeedback,    \* store.lastAiFeedback, a text or Null
  feedbackTimers,    \* due times of the pending cleanup timeouts
  nFeedbackCalls,    \* history: addFeedback calls so far; the call's number
                     \* stands for the random id of the item it makes
  coachState,        \* store.coachState, a coach state update or NoCoachState
  \* --- capture processor (audio-processor.js) ---
  procBuffer,        \* this._buffer
  procIndex,         \* this._index
  posted,            \* the buffers posted on the port, in order
  captured,          \* history: the samples fed to process() so far
  \* --- the PCM codec (floatTo16BitPCM, int16ToFloat32) ---
  float32Data,       \* the Float32Array given to floatTo16BitPCM: each sample
                     \* is its numerator over GridDen
  pcmData,           \* the bytes of the ArrayBuffer floatTo16BitPCM returned
  decoded,           \* what int16ToFloat32 returned for pcmData: each sample
                     \* is its numerator over 32768
  codecStage,        \* "input", "encoded" or "decoded"
  utterance,         \* history: the accepted fragments of the current run
  lastClear,         \* history: Date.now() at the latest clearSubtitle()
                     \* call; NoTimer before the first
  nInbound,          \* history: inbound messages handled so far
  lastInbound,       \* history: the latest inbound message, or NoMessage
  lastStartIn,       \* history: the attempt in whose audio context the
                     \* latest source.start(at) call was made, or NoRef
  \* --- the camera frame loop (CameraView) ---
  liveStatus,        \* the session status the running effect closed over
  camera,            \* startCamera() of the running effect: "pending",
                     \* "live" (its animate loop runs) or "failed"
  staleCameras,      \* the liveStatus of each startCamera() call still
                     \* pending when its effect was cleaned up
  zombieLoops,       \* the liveStatus of each animate loop started after
                     \* the cleanup of its effect
  perfNow,           \* performance.now(), in ms
  lastFrameTime,     \* lastFrameTime.current
  lastImageAt,       \* history: performance.now() at the latest image frame
                     \* written to a transport; NoTimer before the first
  \* --- useAICoach ---
  lastMessage,       \* useState: the text of lastMessage, or Null
  isRateLimited,     \* useState(false)
  isLoading,         \* useState(false)
  isProcessing,      \* isProcessing.current
  awaitingApi,       \* triggerFeedback invocations waiting for the answer to
                     \* a generateContent request
  awaitingLocal,     \* invocations waiting for getLiveCoachingFeedback to
                     \* return without a request
  nCoachCalls,       \* history: triggerFeedback calls so far
  nApiRequests,      \* history: generateContent requests issued so far
  quotaFailed,       \* history: a request has failed for quota exhaustion
  nCallsInFlight,    \* history: triggerFeedback calls made while an earlier
                     \* invocation had not completed
  \* --- mediaPipeService: the video-mode landmarker ---
  poseLandmarker,    \* the module's poseLandmarker: an instance, or NoRef
  detectorIsLoading, \* the module's isLoading
  callerPc,          \* where each initPoseDetector() call stands
  callerResult,      \* the instance each call resolved with, or NoRef
  nInstances,        \* landmarkers created so far
  lastDetect,        \* what the latest detectPose() call returned
  waited,            \* history: the callers that have been in the polling loop
  \* --- usePlaylistStore ---
  playlist,          \* the active queue
  unsortedPoses,     \* items added from the library: [id, instanceId]
  savedPlaylists,    \* the named playlists: [id, items]
  isSidebarOpen,
  nItems,            \* instance ids handed out so far
  playlistNow,       \* Date.now() as the store reads it
  nAddCalls,         \* history: addToUnsorted calls so far
  \* --- useUIStore ---
  toast,             \* [show, message]
  currentView,
  gallery,
  toastTimers,       \* the due times of the pending auto-hide timeouts
  toastNow,          \* the clock of the timeouts, in ms
  toastShown,        \* history: the latest showToast call, [at, message], or
                     \* NoToast before the first
  toastHidden        \* history: hideToast has been called since that call

sessionVars == <<status, wsRef, audioContextRef, streamRef, isDisconnecting,
                 nAttempts, pc, ctxState, streamState, wsState, oncloseSet,
                 pipe, processor, wsCloseCalls, ctxCloseCalls, streamStops,
                 wire>>

playbackVars == <<audioTime, ctxTime, nextStartTime, lastStart, audioLevel,
                  isSpeaking, resetTimers>>

captionVars == <<now, subtitleText, subtitleVisible, subtitleLastUpdate,
                 subtitleTimeout, purgeTimers>>

feedbackVars == <<feedbackQueue, lastAiFeedback, feedbackTimers>>

\* What the claims need to remember of the calls made so far.
history == <<utterance, lastClear, nFeedbackCalls, nInbound, lastInbound,
             lastStartIn>>

captureVars == <<procBuffer, procIndex, posted, captured>>

codecVars == <<float32Data, pcmData, decoded, codecStage>>

cameraVars == <<liveStatus, camera, staleCameras, zombieLoops, perfNow,
                lastFrameTime>>

aiCoachVars == <<lastMessage, isRateLimited, isLoading, isProcessing,
                 awaitingApi, awaitingLocal>>

aiCoachHistory == <<nCoachCalls, nApiRequests, quotaFailed, nCallsInFlight>>

detectorVars == <<poseLandmarker, detectorIsLoading, callerPc, callerResult,
                  nInstances, lastDetect>>

\* The state of the app outside the live session's engine.
playlistVars == <<playlist, unsortedPoses, savedPlaylists, isSidebarOpen>>

playlistAux == <<nItems, playlistNow, nAddCalls>>

uiVars == <<toast, currentView, gallery, toastTimers, toastNow>>

uiHistory == <<toastShown, toastHidden>>

appVars == <<cameraVars, lastImageAt, aiCoachVars, aiCoachHistory, detectorVars,
             waited, playlistVars, playlistAux, uiVars, uiHistory>>

vars == <<sessionVars, playbackVars, captionVars, feedbackVars, captureVars,
          codecVars, coachState, history, appVars>>

\* ---- construction: useState('disconnected'), useRef(null), useRef(false) ----
InitSession ==
  /\ status = "disconnected"
  /\ wsRef = NoRef
  /\ audioContextRef = NoRef
  /\ streamRef = NoRef
  /\ isDisconnecting = FALSE
  /\ nAttempts = 0
  /\ pc = [a \in Attempts |-> "none"]
  /\ ctxState = [a \in Attempts |-> "none"]
  /\ streamState = [a \in Attempts |-> "none"]
  /\ wsState = [a \in Attempts |-> "none"]
  /\ oncloseSet = [a \in Attempts |-> FALSE]
  /\ pipe = [a \in Attempts |-> "none"]
  /\ processor = [a \in Attempts |-> "none"]
  /\ wsCloseCalls = [a \in Attempts |-> 0]
  /\ ctxCloseCalls = [a \in Attempts |-> 0]
  /\ streamStops = [a \in Attempts |-> 0]
  /\ wire = <<>>

\* WebSocket.close(): a connecting or open socket starts closing, a closing
\* or closed one is left as it is.
CloseTransport(rs) == IF rs \in {"CONNECTING", "OPEN"} THEN "CLOSING" ELSE rs

\* wsRef.current?.readyState === OPEN || ... === CONNECTING
ConnectGuard ==
  /\ wsRef # NoRef
  /\ wsState[wsRef] \in {"OPEN", "CONNECTING"}

\* What new AudioContext({ sampleRate: 16000 }) gives: a context that is
\* running, or one that the autoplay policy left suspended.
NewContextStates == {"suspended", "running"}

\* connect(), from the call to its first await: the guard, the forced close
\* of a stale transport, the new audio context.
ConnectCall(ctor) ==
  /\ nAttempts < MaxConnects
  /\ IF ConnectGuard
       THEN UNCHANGED sessionVars
       ELSE LET a == nAttempts + 1 IN
         /\ nAttempts' = a
         /\ IF wsRef # NoRef
              THEN /\ wsState' = [wsState EXCEPT ![wsRef] = CloseTransport(@)]
                   /\ wsCloseCalls' = [wsCloseCalls EXCEPT ![wsRef] = @ + 1]
              ELSE UNCHANGED <<wsState, wsCloseCalls>>
         /\ wsRef' = NoRef
         /\ isDisconnecting' = FALSE
         /\ status' = "connecting"
         /\ ctxState' = [ctxState EXCEPT ![a] = ctor]
         /\ audioContextRef' = a
         /\ pc' = [pc EXCEPT ![a] = IF ctor = "suspended" THEN "resume" ELSE "mic"]
         /\ UNCHANGED <<streamRef, streamState, oncloseSet, pipe, processor,
                        ctxCloseCalls, streamStops, wire>>

\* await ctx.resume() settles: the context runs and connect() goes on to ask
\* for the microphone.  resume() of a context that was closed meanwhile
\* rejects, and the rejection lands in connect()'s outer catch.
ResumeDone(a) ==
  /\ pc[a] = "resume"
  /\ IF ctxState[a] # "closed"
       THEN /\ ctxState' = [ctxState EXCEPT ![a] = "running"]
            /\ pc' = [pc EXCEPT ![a] = "mic"]
            /\ UNCHANGED status
       ELSE /\ status' = "error"
            /\ pc' = [pc EXCEPT ![a] = "failed"]
            /\ UNCHANGED ctxState
  /\ UNCHANGED <<wsRef, audioContextRef, streamRef, isDisconnecting, nAttempts,
                 streamState, wsState, oncloseSet, pipe, processor,
                 wsCloseCalls, ctxCloseCalls, streamStops, wire>>

\* getUserMedia resolved: streamRef, new WebSocket, wsRef, the handlers.
MicGranted(a) ==
  /\ streamState' = [streamState EXCEPT ![a] = "live"]
  /\ streamRef' = a
  /\ wsState' = [wsState EXCEPT ![a] = "CONNECTING"]
  /\ wsRef' = a
  /\ oncloseSet' = [oncloseSet EXCEPT ![a] = TRUE]
  /\ pc' = [pc EXCEPT ![a] = "returned"]
  /\ UNCHANGED <<processor, status, audioContextRef, isDisconnecting, nAttempts, ctxState,
                 pipe, wsCloseCalls, ctxCloseCalls, streamStops, wire>>

\* A bug a refactoring could make: the catch logs the denial and falls through.
MicDeniedFallsThrough(a) ==
  /\ status' = "error"
  /\ wsState' = [wsState EXCEPT ![a] = "CONNECTING"]
  /\ wsRef' = a
  /\ oncloseSet' = [oncloseSet EXCEPT ![a] = TRUE]
  /\ pc' = [pc EXCEPT ![a] = "denied"]
  /\ UNCHANGED <<processor, audioContextRef, streamRef, isDisconnecting, nAttempts,
                 ctxState, streamState, pipe, wsCloseCalls, ctxCloseCalls,
                 streamStops, wire>>

\* getUserMedia rejected: setStatus('error'); return.
MicDenied(a) ==
  /\ status' = "error"
  /\ pc' = [pc EXCEPT ![a] = "denied"]
  /\ UNCHANGED <<processor, wsRef, audioContextRef, streamRef, isDisconnecting, nAttempts,
                 ctxState, streamState, wsState, oncloseSet, pipe,
                 wsCloseCalls, ctxCloseCalls, streamStops, wire>>

\* await navigator.mediaDevices.getUserMedia() settles.
MicDone(a, granted) ==
  /\ pc[a] = "mic"
  /\ IF granted THEN MicGranted(a) ELSE MicDenied(a)

\* The open event: ws.onopen up to its await inside startAudioCapture.
WsOpen(a) ==
  /\ wsState[a] = "CONNECTING"
  /\ wsState' = [wsState EXCEPT ![a] = "OPEN"]
  /\ status' = "connected"
  /\ pipe' = [pipe EXCEPT ![a] = "loading"]
  /\ UNCHANGED <<processor, wsRef, audioContextRef, streamRef, isDisconnecting, nAttempts,
                 pc, ctxState, streamState, oncloseSet, wsCloseCalls,
                 ctxCloseCalls, streamStops, wire>>

\* A bug: the inner catch returns after logging, so a module that failed to
\* load ends startAudioCapture without an exception.
StartAudioCaptureThrowsSwallowed(loaded, restOk) == loaded /\ ~restOk

\* Whether startAudioCapture throws.  A failed addModule is logged and
\* swallowed by the inner catch; new AudioWorkletNode(ctx, 'audio-processor')
\* then throws because the processor was never registered.  restOk is whether
\* the rest of the graph construction succeeds.
StartAudioCaptureThrows(loaded, restOk) == ~loaded \/ ~restOk

\* await ctx.audioWorklet.addModule() settles and startAudioCapture runs to
\* its end; on an exception ws.onopen's catch sets error and closes ws.
AddModuleDone(a, loaded, restOk) ==
  /\ pipe[a] = "loading"
  /\ processor' = [processor EXCEPT ![a] =
                     IF loaded THEN "registered" ELSE "loadFailed"]
  /\ IF StartAudioCaptureThrows(loaded, restOk)
       THEN /\ pipe' = [pipe EXCEPT ![a] = "failed"]
            /\ status' = "error"
            /\ wsState' = [wsState EXCEPT ![a] = CloseTransport(@)]
            /\ wsCloseCalls' = [wsCloseCalls EXCEPT ![a] = @ + 1]
       ELSE /\ pipe' = [pipe EXCEPT ![a] = "running"]
            /\ UNCHANGED <<status, wsState, wsCloseCalls>>
  /\ UNCHANGED <<wsRef, audioContextRef, streamRef, isDisconnecting, nAttempts,
                 pc, ctxState, streamState, oncloseSet, ctxCloseCalls,
                 streamStops, wire>>

\* workletNode.port.onmessage: one 4096-sample window from the worklet.
WorkletMessage(a) ==
  /\ pipe[a] = "running"
  /\ ctxState[a] = "running"
  /\ Len(wire) < MaxWire
  /\ IF wsState[a] # "OPEN"
       THEN UNCHANGED wire
       ELSE wire' = Append(wire, "audio")
  /\ UNCHANGED <<processor, status, wsRef, audioContextRef, streamRef, isDisconnecting,
                 nAttempts, pc, ctxState, streamState, wsState, oncloseSet,
                 pipe, wsCloseCalls, ctxCloseCalls, streamStops>>

\* ws.onclose(event)
OnClose(code) ==
  IF ~isDisconnecting
    THEN IF code = 1011 \/ code = 1008
           THEN /\ status' = "error"
                /\ wsRef' = NoRef
           ELSE /\ status' = "error"
                /\ wsRef' = NoRef
    ELSE IF wsRef # NoRef
           THEN /\ status' = "disconnected"
                /\ wsRef' = NoRef
           ELSE UNCHANGED <<status, wsRef>>

\* The close event of attempt a's socket: the connection is gone (closed by
\* the peer, failed, or the closing handshake that close() started ended).
\* readyState becomes CLOSED and the onclose handler, if still installed, runs.
WsClosed(a, code) ==
  /\ wsState[a] \in {"CONNECTING", "OPEN", "CLOSING"}
  /\ wsState' = [wsState EXCEPT ![a] = "CLOSED"]
  /\ IF oncloseSet[a] THEN OnClose(code) ELSE UNCHANGED <<status, wsRef>>
  /\ UNCHANGED <<processor, audioContextRef, streamRef, isDisconnecting, nAttempts, pc,
                 ctxState, streamState, oncloseSet, pipe, wsCloseCalls,
                 ctxCloseCalls, streamStops, wire>>

\* A bug: the stream is stopped but streamRef is not cleared and the audio
\* context is forgotten without being closed.
CleanupSessionLeaky ==
  /\ isDisconnecting' = TRUE
  /\ IF wsRef # NoRef
       THEN /\ oncloseSet' = [oncloseSet EXCEPT ![wsRef] = FALSE]
            /\ wsState' = [wsState EXCEPT ![wsRef] = CloseTransport(@)]
            /\ wsCloseCalls' = [wsCloseCalls EXCEPT ![wsRef] = @ + 1]
       ELSE UNCHANGED <<oncloseSet, wsState, wsCloseCalls>>
  /\ wsRef' = NoRef
  /\ IF streamRef # NoRef
       THEN /\ streamState' = [streamState EXCEPT ![streamRef] = "stopped"]
            /\ streamStops' = [streamStops EXCEPT ![streamRef] = @ + 1]
       ELSE UNCHANGED <<streamState, streamStops>>
  /\ audioContextRef' = NoRef
  /\ status' = "disconnected"
  /\ UNCHANGED <<streamRef, ctxState, ctxCloseCalls>>

\* cleanupSession()
CleanupSession ==
  /\ isDisconnecting' = TRUE
  /\ IF wsRef # NoRef
       THEN /\ oncloseSet' = [oncloseSet EXCEPT ![wsRef] = FALSE]
            /\ wsState' = [wsState EXCEPT ![wsRef] = CloseTransport(@)]
            /\ wsCloseCalls' = [wsCloseCalls EXCEPT ![wsRef] = @ + 1]
       ELSE UNCHANGED <<oncloseSet, wsState, wsCloseCalls>>
  /\ wsRef' = NoRef
  /\ IF streamRef # NoRef
       THEN /\ streamState' = [streamState EXCEPT ![streamRef] = "stopped"]
            /\ streamStops' = [streamStops EXCEPT ![streamRef] = @ + 1]
       ELSE UNCHANGED <<streamState, streamStops>>
  /\ streamRef' = NoRef
  /\ IF audioContextRef # NoRef /\ ctxState[audioContextRef] # "closed"
       THEN /\ ctxState' = [ctxState EXCEPT ![audioContextRef] = "closed"]
            /\ ctxCloseCalls' = [ctxCloseCalls EXCEPT ![audioContextRef] = @ + 1]
       ELSE UNCHANGED <<ctxState, ctxCloseCalls>>
  /\ audioContextRef' = NoRef
  /\ status' = "disconnected"

\* disconnect(): sets the flag and runs cleanupSession()
Disconnect ==
  /\ CleanupSession
  /\ UNCHANGED <<processor, nAttempts, pc, pipe, wire>>

\* The gate of the three send operations: wsRef.current?.readyState === OPEN
SendGate == wsRef # NoRef /\ wsState[wsRef] = "OPEN"

\* sendExactFrame / sendPoseData / setTargetPose each write one frame of their
\* type when the gate is open and do nothing otherwise.
SendFrame(type) ==
  /\ Len(wire) < MaxWire
  /\ IF SendGate
       THEN wire' = Append(wire, type)
       ELSE UNCHANGED wire
  /\ UNCHANGED <<processor, status, wsRef, audioContextRef, streamRef, isDisconnecting,
                 nAttempts, pc, ctxState, streamState, wsState, oncloseSet,
                 pipe, wsCloseCalls, ctxCloseCalls, streamStops>>

SendExactFrame == SendFrame("image")
SendPoseData == SendFrame("pose")
SetTargetPose == SendFrame("set_target_pose")

(***************************************************************************)
(* Audio playback: ws.onmessage for an audio frame, playAudioChunk.        *)
(*                                                                         *)
(* Time is counted in sample periods of the 24 kHz playback rate, so a     *)
(* chunk of n samples lasts n units (buffer.duration = n / 24000 s) and    *)
(* the delay of the reset timeout, (start - currentTime + duration) * 1000 *)
(* ms, is start - currentTime + n units.                                   *)
(***************************************************************************)
\* No chunk has been scheduled yet.
NoStart == [at |-> 0, dur |-> 0, now |-> 0]

InitPlayback ==
  /\ audioTime = 0
  /\ ctxTime = [a \in Attempts |-> 0]
  /\ nextStartTime = 0
  /\ lastStart = NoStart
  /\ audioLevel = 0
  /\ isSpeaking = FALSE
  /\ resetTimers = {}

\* The inbound audio payloads of the model: msg.data after base64 decoding,
\* as little-endian bytes, or a string that is not base64 at all.
\* <<0, 32>> is the sample 8192 (0.25), <<0, 128>> the sample -32768 (-1.0).
AudioPayloads ==
  { [b64ok |-> TRUE, bytes |-> <<0, 0>>],
    [b64ok |-> TRUE, bytes |-> <<0, 128>>],
    [b64ok |-> TRUE, bytes |-> <<0, 32, 0, 0>>],
    [b64ok |-> TRUE, bytes |-> <<>>],
    [b64ok |-> TRUE, bytes |-> <<0, 0, 0>>],
    [b64ok |-> FALSE, bytes |-> <<>>] }

\* DataView.getInt16(i * 2, true)
GetInt16(bytes, i) ==
  LET u == bytes[2 * i + 1] + 256 * bytes[2 * i + 2]
  IN  IF u >= 32768 THEN u - 65536 ELSE u

\* int16ToFloat32 throws when the byte count is odd: len is then fractional
\* and the last getInt16 of the loop reads past the end of the buffer.
Int16ToFloat32Throws(bytes) == Len(bytes) % 2 = 1

\* int16ToFloat32: sample i is int16 / 32768; the model keeps the int16.
Int16ToFloat32(bytes) == [i \in 1..(Len(bytes) \div 2) |-> GetInt16(bytes, i - 1)]

RECURSIVE SumSquares(_)
\* sum += floatData[i] * floatData[i], in units of 2^-14 (the square of a
\* sample in units of 1/128, exact for samples whose low byte is 0)
SumSquares(floats) ==
  IF floats = <<>> THEN 0
  ELSE (Head(floats) \div 256) * (Head(floats) \div 256) + SumSquares(Tail(floats))

\* Math.sqrt(sum / length) * 3, in hundredths rounded down:
\* the largest k with (k/100)^2 <= 9 * sum / (16384 * length).
RmsTimes3(floats) ==
  LET n == Len(floats)
      x == 5625 * SumSquares(floats)
  IN  CHOOSE k \in 0..300 :
        /\ k * k * 1024 * n <= x
        /\ (k + 1) * (k + 1) * 1024 * n > x

\* The value NaN of the level: not a number of hundredths.
NaN == -1

\* normalizedLevel = Math.min(1, rms * 3); 0 / 0 is NaN for an empty chunk
NormalizedLevel(floats) ==
  IF Len(floats) = 0 THEN NaN
  ELSE IF RmsTimes3(floats) > 100 THEN 100 ELSE RmsTimes3(floats)

\* if (nextStartTimeRef.current < currentTime) nextStartTimeRef.current = currentTime
StartTime(cursor, currentTime) ==
  IF cursor < currentTime THEN currentTime ELSE cursor

\* A bug: the cursor is set to the chunk's duration instead of advanced by it.
AdvanceCursorOverwrites(start, duration) == duration

\* nextStartTimeRef.current += duration
AdvanceCursor(start, duration) == start + duration

\* playAudioChunk(base64Audio), with what an exception leaves behind: atob
\* and int16ToFloat32 throw before any state is written, createBuffer throws
\* for a chunk of no samples after the level and speaking flag are written.
PlayAudioChunk(payload) ==
  IF audioContextRef = NoRef \/ ~payload.b64ok
       \/ Int16ToFloat32Throws(payload.bytes)
    THEN UNCHANGED playbackVars
    ELSE LET floatData == Int16ToFloat32(payload.bytes)
             currentTime == ctxTime[audioContextRef]
             start == StartTime(nextStartTime, currentTime)
             duration == Len(floatData)
         IN  /\ audioLevel' = NormalizedLevel(floatData)
             /\ isSpeaking' = TRUE
             /\ IF duration = 0
                  THEN UNCHANGED <<nextStartTime, lastStart, resetTimers>>
                  ELSE /\ lastStart' =
                              [at |-> start, dur |-> duration, now |-> currentTime]
                       /\ resetTimers' = resetTimers \cup
                              {audioTime + (start - currentTime + duration)}
                       /\ nextStartTime' = AdvanceCursor(start, duration)
             /\ UNCHANGED <<audioTime, ctxTime>>

\* ws.onmessage for a frame {type: 'audio', data}: the message event of an
\* open socket; exceptions of playAudioChunk end in the handler's catch.
OnAudioFrame(a, payload) ==
  /\ wsState[a] = "OPEN"
  /\ audioContextRef # NoRef =>
        nextStartTime <= ctxTime[audioContextRef] + MaxBacklog
  /\ PlayAudioChunk(payload)
  /\ UNCHANGED sessionVars

\* The timeout of playAudioChunk fires: level 0, not speaking.
ResetTimerFires(due) ==
  /\ due \in resetTimers
  /\ due <= audioTime
  /\ resetTimers' = resetTimers \ {due}
  /\ audioLevel' = 0
  /\ isSpeaking' = FALSE
  /\ UNCHANGED <<audioTime, ctxTime, nextStartTime, lastStart>>
  /\ UNCHANGED sessionVars

\* One sample period passes: every running context's clock advances.  A
\* timeout that is due fires before time moves on.
AudioTick ==
  /\ audioTime < MaxAudioTime
  /\ \A due \in resetTimers : due > audioTime
  /\ audioTime' = audioTime + 1
  /\ ctxTime' = [a \in Attempts |->
                   IF ctxState[a] = "running" THEN ctxTime[a] + 1 ELSE ctxTime[a]]
  /\ UNCHANGED <<nextStartTime, lastStart, audioLevel, isSpeaking, resetTimers>>
  /\ UNCHANGED sessionVars

(***************************************************************************)
(* Caption aggregation: appendSubtitle, clearSubtitle and their timeouts.  *)
(* Texts are sequences of one-character strings.  A timeout fires at its   *)
(* due time or later (setTimeout gives a minimum delay).                   *)
(***************************************************************************)
SUBTITLE_FADE_DELAY == 2000
SUBTITLE_RESET_GAP == 3000
SUBTITLE_PURGE_DELAY == 500

NoTimer == -1

\* The resolution of the wall clock in the model.
TickMs == SUBTITLE_PURGE_DELAY

\* Date.now() when the store is created: any time later than the reset gap
\* after the epoch, which is what subtitleLastUpdate = 0 stands for.
StartClock == SUBTITLE_RESET_GAP + TickMs

InitCaption ==
  /\ now = StartClock
  /\ subtitleText = <<>>
  /\ subtitleVisible = FALSE
  /\ subtitleLastUpdate = 0
  /\ subtitleTimeout = NoTimer
  /\ purgeTimers = {}

\* The text fragments of the model: "Hi", " up", "**A**", " ! ", "a**",
\* "**B".
TextInputs ==
  { <<"H", "i">>,
    <<" ", "u", "p">>,
    <<"*", "*", "A", "*", "*">>,
    <<" ", "!", " ">>,
    <<"a", "*", "*">>,
    <<"*", "*", "B">> }

RECURSIVE TrimStart(_)
TrimStart(t) ==
  IF t # <<>> /\ Head(t) = " " THEN TrimStart(Tail(t)) ELSE t

RECURSIVE TrimEnd(_)
TrimEnd(t) ==
  IF t # <<>> /\ t[Len(t)] = " " THEN TrimEnd(SubSeq(t, 1, Len(t) - 1)) ELSE t

\* String.prototype.trim
Trim(t) == TrimEnd(TrimStart(t))

\* String.prototype.startsWith
StartsWith(t, prefix) ==
  Len(t) >= Len(prefix) /\ SubSeq(t, 1, Len(prefix)) = prefix

\* String.prototype.includes
Includes(t, part) ==
  \E i \in 1..(Len(t) - Len(part) + 1) : SubSeq(t, i, i + Len(part) - 1) = part

\* isThinkingToken(text)
IsThinkingToken(text) ==
  LET trimmed == Trim(text)
  IN  \/ StartsWith(trimmed, <<"*", "*">>) /\ Includes(trimmed, <<"*", "*">>)
      \/ Len(trimmed) < 2

\* A bug: the comparison is >= instead of >.
ShouldResetAtGap(t, lastUpdate) == t - lastUpdate >= SUBTITLE_RESET_GAP

\* const shouldReset = now - state.subtitleLastUpdate > 3000
ShouldReset(t, lastUpdate) == t - lastUpdate > SUBTITLE_RESET_GAP

\* appendSubtitle(text)
AppendSubtitle(text) ==
  IF IsThinkingToken(text)
    THEN UNCHANGED captionVars
    ELSE /\ subtitleText' = IF ShouldReset(now, subtitleLastUpdate)
                              THEN text
                              ELSE subtitleText \o text
         /\ subtitleVisible' = TRUE
         /\ subtitleLastUpdate' = now
         /\ subtitleTimeout' = now + SUBTITLE_FADE_DELAY
         /\ UNCHANGED <<now, purgeTimers>>

\* clearSubtitle()
ClearSubtitle ==
  /\ subtitleTimeout' = NoTimer
  /\ subtitleText' = <<>>
  /\ subtitleVisible' = FALSE
  /\ UNCHANGED <<now, subtitleLastUpdate, purgeTimers>>

\* The fade timeout fires: hide the caption, schedule the purge of its text.
FadeTimeoutFires ==
  /\ subtitleTimeout # NoTimer
  /\ subtitleTimeout <= now
  /\ subtitleVisible' = FALSE
  /\ purgeTimers' = purgeTimers \cup {now + SUBTITLE_PURGE_DELAY}
  /\ subtitleTimeout' = NoTimer
  /\ UNCHANGED <<now, subtitleText, subtitleLastUpdate>>

\* The inner timeout fires: set({ subtitleText: '' })
PurgeTimeoutFires(due) ==
  /\ due \in purgeTimers
  /\ due <= now
  /\ purgeTimers' = purgeTimers \ {due}
  /\ subtitleText' = <<>>
  /\ UNCHANGED <<now, subtitleVisible, subtitleLastUpdate, subtitleTimeout>>

\* The wall clock advances.
CaptionTick ==
  /\ now < StartClock + MaxCaptionTicks * TickMs
  /\ now' = now + TickMs
  /\ UNCHANGED <<subtitleText, subtitleVisible, subtitleLastUpdate,
                 subtitleTimeout, purgeTimers>>

(***************************************************************************)
(* The feedback queue: addFeedback, cleanupExpiredFeedback,                *)
(* clearAllFeedback and the cleanup timeout each accepted item starts.     *)
(***************************************************************************)
MAX_QUEUE_SIZE == 3
FEEDBACK_TTL == 4000

Null == "null"

\* The resolution of the wall clock where the feedback queue is checked.
FeedbackTickMs == 2 * TickMs

InitFeedback ==
  /\ feedbackQueue = <<>>
  /\ lastAiFeedback = Null
  /\ feedbackTimers = {}

\* Array.prototype.slice(0, n)
Slice(seq, n) == SubSeq(seq, 1, IF Len(seq) < n THEN Len(seq) ELSE n)

\* A bug: the queue is not cut to MAX_QUEUE_SIZE.
AddFeedbackItemUnbounded(text, id) ==
  /\ feedbackQueue' =
       <<[id |-> id, text |-> text, timestamp |-> now]>> \o feedbackQueue
  /\ lastAiFeedback' = text
  /\ feedbackTimers' = feedbackTimers \cup {now + FEEDBACK_TTL}

\* addFeedback past the filter: the new item goes to the head, the queue is
\* cut to MAX_QUEUE_SIZE, and a cleanup is scheduled FEEDBACK_TTL later.
AddFeedbackItem(text, id) ==
  /\ feedbackQueue' =
       Slice(<<[id |-> id, text |-> text, timestamp |-> now]>> \o feedbackQueue,
             MAX_QUEUE_SIZE)
  /\ lastAiFeedback' = text
  /\ feedbackTimers' = feedbackTimers \cup {now + FEEDBACK_TTL}

\* addFeedback(text)
AddFeedback(text, id) ==
  IF IsThinkingToken(text)
    THEN UNCHANGED feedbackVars
    ELSE AddFeedbackItem(text, id)

\* A bug: an item whose age is exactly FEEDBACK_TTL is kept.
NotExpiredAtTtl(item, t) == t - item.timestamp <= FEEDBACK_TTL

\* now - item.timestamp < FEEDBACK_TTL
NotExpired(item, t) == t - item.timestamp < FEEDBACK_TTL

\* cleanupExpiredFeedback()
CleanupExpiredFeedback ==
  /\ feedbackQueue' =
       SelectSeq(feedbackQueue, LAMBDA item : NotExpired(item, now))
  /\ UNCHANGED <<lastAiFeedback, feedbackTimers>>

\* The timeout of addFeedback fires: get().cleanupExpiredFeedback()
FeedbackTimerFires(due) ==
  /\ due \in feedbackTimers
  /\ due <= now
  /\ feedbackTimers' = feedbackTimers \ {due}
  /\ feedbackQueue' =
       SelectSeq(feedbackQueue, LAMBDA item : NotExpired(item, now))
  /\ UNCHANGED lastAiFeedback

\* clearAllFeedback()
ClearAllFeedback ==
  /\ feedbackQueue' = <<>>
  /\ lastAiFeedback' = Null
  /\ UNCHANGED feedbackTimers

\* The wall clock advances.
FeedbackTick ==
  /\ now < StartClock + MaxFeedbackTicks * FeedbackTickMs
  /\ now' = now + FeedbackTickMs

(***************************************************************************)
(* The capture processor: AudioProcessor.process of audio-processor.js.    *)
(* A posted buffer is copied when it is posted (structured clone).         *)
(***************************************************************************)
SampleValues == {0, 1}

\* new Float32Array(this.bufferSize); this._index = 0
InitCapture ==
  /\ procBuffer = [i \in 1..bufferSize |-> 0]
  /\ procIndex = 0
  /\ posted = <<>>
  /\ captured = <<>>

\* The blocks of the model: every channel of at most MaxBlock samples.
RECURSIVE BlocksOfLength(_)
BlocksOfLength(n) ==
  IF n = 0 THEN {<<>>}
  ELSE {Append(block, v) : block \in BlocksOfLength(n - 1), v \in SampleValues}

Blocks == UNION {BlocksOfLength(n) : n \in 0..MaxBlock}

\* typedArray[i] = v, with i counted from 0: a store past the end is ignored.
SetAt(buffer, i, v) ==
  IF i + 1 \in 1..Len(buffer) THEN [buffer EXCEPT ![i + 1] = v] ELSE buffer

\* A bug: the window is posted one sample late.
WindowFullLate(index) == index > bufferSize

\* this._index >= this.bufferSize
WindowFull(index) == index >= bufferSize

\* The loop of process() from sample i of channel0 on; p is the processor:
\* its buffer, its index and what it has posted.
RECURSIVE ProcessFrom(_, _, _)
ProcessFrom(p, channel0, i) ==
  IF i > Len(channel0) THEN p
  ELSE LET stored == SetAt(p.buffer, p.index, channel0[i])
           index == p.index + 1
       IN  IF WindowFull(index)
             THEN ProcessFrom([buffer |-> stored, index |-> 0,
                               posted |-> Append(p.posted, stored)],
                              channel0, i + 1)
             ELSE ProcessFrom([buffer |-> stored, index |-> index,
                               posted |-> p.posted],
                              channel0, i + 1)

\* process(inputs, outputs, parameters), inputs[0] being input: nothing
\* happens for an input of no channels.
Process(input) ==
  IF Len(input) = 0
    THEN UNCHANGED <<procBuffer, procIndex, posted>>
    ELSE LET p == ProcessFrom([buffer |-> procBuffer, index |-> procIndex,
                               posted |-> posted], input[1], 1)
         IN  /\ procBuffer' = p.buffer
             /\ procIndex' = p.index
             /\ posted' = p.posted

(***************************************************************************)
(* The PCM codec: floatTo16BitPCM and int16ToFloat32.  A Float32 sample is *)
(* a multiple of 1/GridDen and is kept as its numerator; its products with *)
(* 0x8000 and 0x7FFF are exact in the doubles the code computes with.      *)
(***************************************************************************)
GridDen == 65536
GridStep == 1285

\* Grid points in one step of 1/32768.
GridPerStep == GridDen \div 32768

\* The samples of the model: from about -1.02 to 1.02 in steps of about
\* 0.0196, and -1 and 1 themselves.
SampleGrid ==
  {GridStep * j : j \in -MaxGridIndex..MaxGridIndex} \cup {-GridDen, GridDen}

\* The arrays of the model: up to MaxCodecLen samples that follow one another
\* on the grid.
CodecInputs ==
  {<<>>} \cup
  {[i \in 1..n |-> GridStep * (j + i - 1)] :
     j \in -MaxGridIndex..(MaxGridIndex - MaxCodecLen + 1), n \in 1..MaxCodecLen}
  \cup {<<-GridDen>>, <<GridDen>>}

InitCodec(samples) ==
  /\ float32Data = samples
  /\ pcmData = <<>>
  /\ decoded = <<>>
  /\ codecStage = "input"

\* Math.max(-1, Math.min(1, output[i]))
Clamp(x) ==
  IF x > GridDen THEN GridDen ELSE IF x < -GridDen THEN -GridDen ELSE x

\* A bug: negative samples are scaled by 0x7FFF too.
ScaleBy7FFF(s) == s * 32767

\* s < 0 ? s * 0x8000 : s * 0x7FFF, as a numerator over GridDen
Scale(s) == IF s < 0 THEN s * 32768 ELSE s * 32767

\* ToInt16 of the number num / GridDen, which DataView.setInt16 applies: the
\* fraction is cut off (towards 0) and the integer is taken modulo 2^16.
ToInt16(num) ==
  LET int == IF num >= 0 THEN num \div GridDen
                         ELSE (num + GridDen - 1) \div GridDen
      u == int % 65536
  IN  IF u >= 32768 THEN u - 65536 ELSE u

\* view.setInt16(i * 2, v, true): the two bytes, low byte first
SetInt16(v) ==
  LET u == ToInt16(v) % 65536
  IN  <<u % 256, u \div 256>>

RECURSIVE FloatTo16BitPCM(_)
\* floatTo16BitPCM(output): the bytes of the buffer it returns
FloatTo16BitPCM(output) ==
  IF output = <<>> THEN <<>>
  ELSE SetInt16(Scale(Clamp(Head(output)))) \o FloatTo16BitPCM(Tail(output))

\* const pcmData = floatTo16BitPCM(float32Data)
Encode ==
  /\ codecStage = "input"
  /\ pcmData' = FloatTo16BitPCM(float32Data)
  /\ codecStage' = "encoded"
  /\ UNCHANGED <<float32Data, decoded>>

\* const floatData = int16ToFloat32(pcmData)
Decode ==
  /\ codecStage = "encoded"
  /\ ~Int16ToFloat32Throws(pcmData)
  /\ decoded' = Int16ToFloat32(pcmData)
  /\ codecStage' = "decoded"
  /\ UNCHANGED <<float32Data, pcmData>>

(***************************************************************************)
(* Inbound messages: ws.onmessage and setLastAiFeedback.                   *)
(***************************************************************************)
NoPayload == [b64ok |-> FALSE, bytes |-> <<>>]

\* coachState: null
NoCoachState ==
  [active |-> FALSE, current_step |-> 0, total_steps |-> 0, state |-> "null",
   attempt |-> 0, completed_steps |-> <<>>]

\* The coach state updates of the model (interface CoachStateUpdate).
CoachStateUpdates ==
  { [active |-> TRUE, current_step |-> 2, total_steps |-> 3,
     state |-> "watching", attempt |-> 1, completed_steps |-> <<1>>],
    [active |-> FALSE, current_step |-> 0, total_steps |-> 3,
     state |-> "idle", attempt |-> 0, completed_steps |-> <<>>] }

\* setCoachState(state)
SetCoachState(state) == coachState' = state

\* No message yet.
NoMessage ==
  [json |-> FALSE, type |-> "none", audio |-> NoPayload, text |-> <<>>,
   coach |-> NoCoachState]

\* The messages of the model: event.data that JSON.parse rejects, the types
\* error, audio and text with their data, a type the handler does not know,
\* and frames that carry a coach state update.  A text of no characters
\* stands for data that is not truthy.
InboundMessages ==
  {[json |-> FALSE, type |-> "", audio |-> NoPayload, text |-> <<>>,
    coach |-> NoCoachState]}
  \cup {[json |-> TRUE, type |-> t, audio |-> NoPayload, text |-> <<>>,
          coach |-> NoCoachState] : t \in {"error", "ping"}}
  \cup {[json |-> TRUE, type |-> "audio", audio |-> p, text |-> <<>>,
          coach |-> NoCoachState] : p \in AudioPayloads}
  \cup {[json |-> TRUE, type |-> "text", audio |-> NoPayload, text |-> t,
          coach |-> NoCoachState] : t \in TextInputs \cup {<<>>}}
  \cup {[json |-> TRUE, type |-> "coach_state", audio |-> NoPayload,
          text |-> <<>>, coach |-> c] : c \in CoachStateUpdates}

\* A bug: setLastAiFeedback feeds the feedback queue only.
SetLastAiFeedbackQueueOnly(text, id) ==
  IF text = <<>>
    THEN UNCHANGED <<captionVars, feedbackVars>>
    ELSE AddFeedback(text, id) /\ UNCHANGED captionVars

\* setLastAiFeedback(text)
SetLastAiFeedback(text, id) ==
  IF text = <<>>
    THEN UNCHANGED <<captionVars, feedbackVars>>
    ELSE AppendSubtitle(text) /\ AddFeedback(text, id)

\* A bug: an error message of the backend ends the session in error.
OnBackendErrorIsFatal ==
  /\ status' = "error"
  /\ UNCHANGED <<wsRef, audioContextRef, streamRef, isDisconnecting, nAttempts,
                 pc, ctxState, streamState, wsState, oncloseSet, pipe,
                 processor, wsCloseCalls, ctxCloseCalls, streamStops, wire>>
  /\ UNCHANGED <<playbackVars, captionVars, feedbackVars>>

\* if (msg.type === 'error') { console.error(...); return; }
OnBackendError ==
  UNCHANGED <<sessionVars, playbackVars, captionVars, feedbackVars>>

\* ws.onmessage(event): the message event of an open socket.  Whatever is
\* thrown in the handler ends in its catch.  No branch of the handler calls
\* setCoachState.
OnMessage(a, msg, id) ==
  /\ wsState[a] = "OPEN"
  /\ UNCHANGED coachState
  /\ IF ~msg.json
       THEN UNCHANGED <<sessionVars, playbackVars, captionVars, feedbackVars>>
       ELSE CASE msg.type = "error" -> OnBackendError
              [] msg.type = "audio" ->
                   /\ PlayAudioChunk(msg.audio)
                   /\ UNCHANGED <<sessionVars, captionVars, feedbackVars>>
              [] msg.type = "text" ->
                   /\ SetLastAiFeedback(msg.text, id)
                   /\ UNCHANGED <<sessionVars, playbackVars>>
              [] OTHER ->
                   UNCHANGED <<sessionVars, playbackVars, captionVars,
                               feedbackVars>>

\* The message carries a text that setLastAiFeedback hands on.
CarriesText(msg) == msg.json /\ msg.type = "text" /\ msg.text # <<>>

\* The run of accepted fragments that a call appendSubtitle(text) leaves: a
\* fragment less than 3000 ms after the previous accepted one continues the
\* run, a later one starts a new run.
RunAfter(text) ==
  IF IsThinkingToken(text) THEN utterance
  ELSE IF now - subtitleLastUpdate < 3000 THEN utterance \o text ELSE text

\* The context of the latest source.start(at) call after a step: the engine's
\* context when the step has scheduled a chunk.
StartedIn ==
  IF lastStart' # lastStart THEN audioContextRef ELSE lastStartIn

\* No connect() call is under way: playback is checked over sessions that
\* follow one another.
NoAttemptUnderWay ==
  \A a \in Attempts :
    /\ pc[a] \in {"none", "returned", "denied", "failed"}
    /\ wsState[a] \notin {"CONNECTING", "OPEN"}

(***************************************************************************)
(* The camera frame loop of CameraView.  The component stays mounted for   *)
(* the life of the app, so lastFrameTime is one ref; the effect that owns  *)
(* the loop is run again at every change of liveStatus, and its animate    *)
(* callback reads the liveStatus of the render that created it.  The model *)
(* follows the camera view while it is shown (currentView = 'camera').     *)
(***************************************************************************)
\* The gap that animate leaves between two frames, in ms.
FRAME_INTERVAL == 1000

\* The resolution of performance.now() in the model.
FrameTickMs == 600
MaxFrameTicks == 2

\* How many startCamera() calls of cleaned-up effects may be pending at once.
MaxStaleCameras == 1

\* useRef(0), and the effect of the first render with its camera requested.
InitCamera ==
  /\ liveStatus = "disconnected"
  /\ camera = "pending"
  /\ staleCameras = {}
  /\ zombieLoops = {}
  /\ perfNow = 0
  /\ lastFrameTime = 0

\* React runs the effect again after a render with a new status: the cleanup
\* of the old effect stops its stream, if it has one yet, and cancels its
\* animation frame; the new effect closes over the new status and calls
\* startCamera().  A startCamera() call that was still waiting for
\* getUserMedia is not cancelled.
LoopEffect ==
  /\ liveStatus # status
  /\ camera = "pending" => Cardinality(staleCameras \ {liveStatus}) < MaxStaleCameras
  /\ liveStatus' = status
  /\ staleCameras' = IF camera = "pending"
                       THEN staleCameras \cup {liveStatus}
                       ELSE staleCameras
  /\ camera' = "pending"
  /\ UNCHANGED <<zombieLoops, perfNow, lastFrameTime, sessionVars>>

\* getUserMedia of the running effect resolves and the video fires
\* loadeddata: requestAnimationFrame(animate).
CameraLoads ==
  /\ camera = "pending"
  /\ camera' = "live"
  /\ UNCHANGED <<liveStatus, staleCameras, zombieLoops, perfNow, lastFrameTime,
                 sessionVars>>

\* getUserMedia of the running effect rejects: setStreamError(true).
CameraFails ==
  /\ camera = "pending"
  /\ camera' = "failed"
  /\ UNCHANGED <<liveStatus, staleCameras, zombieLoops, perfNow, lastFrameTime,
                 sessionVars>>

\* getUserMedia of a cleaned-up effect resolves: its stream is given to the
\* video and its onloadeddata handler starts an animate loop that no cleanup
\* will cancel.
StaleCameraLoads(closure) ==
  /\ closure \in staleCameras
  /\ staleCameras' = staleCameras \ {closure}
  /\ zombieLoops' = zombieLoops \cup {closure}
  /\ UNCHANGED <<liveStatus, camera, perfNow, lastFrameTime, sessionVars>>

StaleCameraFails(closure) ==
  /\ closure \in staleCameras
  /\ staleCameras' = staleCameras \ {closure}
  /\ UNCHANGED <<liveStatus, camera, zombieLoops, perfNow, lastFrameTime,
                 sessionVars>>

\* One animation frame of a loop whose closure holds the given liveStatus;
\* ready is videoRef.current.readyState >= 2.
Animate(closure, ready) ==
  /\ IF ready /\ closure = "connected"
          /\ perfNow - lastFrameTime > FRAME_INTERVAL
       THEN /\ lastFrameTime' = perfNow
            /\ SendExactFrame
       ELSE UNCHANGED <<lastFrameTime, sessionVars>>
  /\ UNCHANGED <<liveStatus, camera, staleCameras, zombieLoops, perfNow>>

\* The running effect is the one of the latest render.
EffectHasRun == liveStatus = status

\* performance.now() advances; a pending effect runs within one tick.
FrameTick ==
  /\ perfNow < MaxFrameTicks * FrameTickMs
  /\ EffectHasRun
  /\ perfNow' = perfNow + FrameTickMs
  /\ UNCHANGED <<liveStatus, camera, staleCameras, zombieLoops, lastFrameTime,
                 sessionVars>>

(***************************************************************************)
(* useAICoach and getLiveCoachingFeedback.  The answer of generateContent  *)
(* is a text or an error; of an error's message the model keeps which of   *)
(* the three quota markers it contains.  lastMessage is its text (its id   *)
(* is Date.now()).                                                         *)
(***************************************************************************)
MaxCoachCalls == 4

QuotaMarkers == {"429", "quota", "RESOURCE_EXHAUSTED"}
OfflineText == "AI Offline (Quota Exceeded)"

\* What generateContent can answer: response.text, possibly empty, or an
\* error with a message.
ApiOutcomes ==
  [ok : {TRUE}, text : {"", "Lift your chin"}, message : {{}}]
    \cup [ok : {FALSE}, text : {""}, message : SUBSET QuotaMarkers]

IsQuotaFailure(out) == ~out.ok /\ out.message # {}

InitAICoach ==
  /\ lastMessage = Null
  /\ isRateLimited = FALSE
  /\ isLoading = FALSE
  /\ isProcessing = FALSE
  /\ awaitingApi = 0
  /\ awaitingLocal = 0

\* getLiveCoachingFeedback after its request was answered: the text, or the
\* default for an empty one; an error whose message contains '429' is
\* replaced by the thrown object { status: 429 }, which has no message; any
\* other error is answered with a stock phrase.
GetLiveCoachingFeedback(out) ==
  IF out.ok
    THEN [threw |-> FALSE, message |-> {},
          text |-> IF out.text = "" THEN "Hold steady..." ELSE out.text]
    ELSE IF "429" \in out.message
      THEN [threw |-> TRUE, message |-> {}, text |-> ""]
      ELSE [threw |-> FALSE, message |-> {}, text |-> "Great energy!"]

\* The mutant of TriggerFeedback: isProcessing.current is not tested.
TriggerFeedbackUnguarded(ready, ctx, inline) ==
  IF ~ready \/ isRateLimited
    THEN UNCHANGED aiCoachVars
    ELSE IF ~ctx
      THEN /\ isProcessing' = FALSE
           /\ isLoading' = FALSE
           /\ UNCHANGED <<lastMessage, isRateLimited, awaitingApi, awaitingLocal>>
      ELSE /\ isProcessing' = TRUE
           /\ isLoading' = TRUE
           /\ awaitingApi' = IF inline THEN awaitingApi + 1 ELSE awaitingApi
           /\ awaitingLocal' = IF inline THEN awaitingLocal ELSE awaitingLocal + 1
           /\ UNCHANGED <<lastMessage, isRateLimited>>

\* triggerFeedback up to its await.  ready: there is a pose, the coach is
\* enabled and the video plays; ctx: the canvas gives a 2d context and
\* draws (without one, or when a canvas call throws, the call ends at
\* once); inline: pose.imageSrc is a data URL, so that a request is issued.
TriggerFeedback(ready, ctx, inline) ==
  IF ~ready \/ isRateLimited \/ isProcessing
    THEN UNCHANGED aiCoachVars
    ELSE IF ~ctx
      THEN /\ isProcessing' = FALSE
           /\ isLoading' = FALSE
           /\ UNCHANGED <<lastMessage, isRateLimited, awaitingApi, awaitingLocal>>
      ELSE /\ isProcessing' = TRUE
           /\ isLoading' = TRUE
           /\ awaitingApi' = IF inline THEN awaitingApi + 1 ELSE awaitingApi
           /\ awaitingLocal' = IF inline THEN awaitingLocal ELSE awaitingLocal + 1
           /\ UNCHANGED <<lastMessage, isRateLimited>>

\* The rest of triggerFeedback once getLiveCoachingFeedback has settled:
\* setLastMessage, or the catch block, and the finally block.
FeedbackSettles(result) ==
  /\ IF ~result.threw
       THEN /\ lastMessage' = result.text
            /\ UNCHANGED isRateLimited
       ELSE IF result.message \cap QuotaMarkers # {}
         THEN /\ isRateLimited' = TRUE
              /\ lastMessage' = OfflineText
         ELSE UNCHANGED <<lastMessage, isRateLimited>>
  /\ isProcessing' = FALSE
  /\ isLoading' = FALSE

\* The request of an invocation is answered.
ApiCompletes(out) ==
  /\ awaitingApi > 0
  /\ awaitingApi' = awaitingApi - 1
  /\ FeedbackSettles(GetLiveCoachingFeedback(out))
  /\ UNCHANGED awaitingLocal

\* getLiveCoachingFeedback returns "Hold steady..." for a pose whose image
\* is a URL.
LocalCompletes ==
  /\ awaitingLocal > 0
  /\ awaitingLocal' = awaitingLocal - 1
  /\ FeedbackSettles([threw |-> FALSE, message |-> {}, text |-> "Hold steady..."])
  /\ UNCHANGED awaitingApi

(***************************************************************************)
(* mediaPipeService: initPoseDetector and detectPose.  Every call of       *)
(* initPoseDetector is a caller; between two awaits a caller runs without  *)
(* interruption.  A caller is "idle" before its call, "waiting" in the     *)
(* polling loop, "resolving" while FilesetResolver.forVisionTasks is       *)
(* awaited, "creating" while PoseLandmarker.createFromOptions is awaited,  *)
(* and "done" or "failed" once its promise has settled.                    *)
(***************************************************************************)
MaxCallers == 3
Callers == 1..MaxCallers

InitDetector ==
  /\ poseLandmarker = NoRef
  /\ detectorIsLoading = FALSE
  /\ callerPc = [c \in Callers |-> "idle"]
  /\ callerResult = [c \in Callers |-> NoRef]
  /\ nInstances = 0
  /\ lastDetect = "none"

\* The callers that have set isLoading and not yet settled.
Creating == {c \in Callers : callerPc[c] \in {"resolving", "creating"}}

\* Lines 24-28: isLoading = true and the first await of the try block.
StartCreation(c) ==
  /\ detectorIsLoading' = TRUE
  /\ callerPc' = [callerPc EXCEPT ![c] = "resolving"]
  /\ UNCHANGED <<poseLandmarker, callerResult, nInstances>>

ReturnInstance(c) ==
  /\ callerPc' = [callerPc EXCEPT ![c] = "done"]
  /\ callerResult' = [callerResult EXCEPT ![c] = poseLandmarker]
  /\ UNCHANGED <<poseLandmarker, detectorIsLoading, nInstances>>

\* The mutant of InitPoseDetector: isLoading is not tested.
InitPoseDetectorNoWait(c) ==
  /\ callerPc[c] = "idle"
  /\ IF poseLandmarker # NoRef
       THEN ReturnInstance(c)
       ELSE StartCreation(c)

\* initPoseDetector() up to its first await.
InitPoseDetector(c) ==
  /\ callerPc[c] = "idle"
  /\ IF poseLandmarker # NoRef
       THEN ReturnInstance(c)
       ELSE IF detectorIsLoading
         THEN /\ callerPc' = [callerPc EXCEPT ![c] = "waiting"]
              /\ UNCHANGED <<poseLandmarker, detectorIsLoading, callerResult,
                             nInstances>>
         ELSE StartCreation(c)

\* The 100 ms timer of a waiting caller fires: it returns the instance if
\* there is one, waits again while isLoading, and otherwise leaves the loop
\* and starts a creation of its own.
WaitWakes(c) ==
  /\ callerPc[c] = "waiting"
  /\ IF poseLandmarker # NoRef
       THEN ReturnInstance(c)
       ELSE IF detectorIsLoading
         THEN UNCHANGED <<poseLandmarker, detectorIsLoading, callerPc,
                          callerResult, nInstances>>
         ELSE StartCreation(c)

\* The catch and finally blocks: the caller's promise rejects.
CreationFails(c) ==
  /\ detectorIsLoading' = FALSE
  /\ callerPc' = [callerPc EXCEPT ![c] = "failed"]
  /\ UNCHANGED <<poseLandmarker, callerResult, nInstances>>

\* FilesetResolver.forVisionTasks settles.
ResolverDone(c, ok) ==
  /\ callerPc[c] = "resolving"
  /\ IF ok
       THEN /\ callerPc' = [callerPc EXCEPT ![c] = "creating"]
            /\ UNCHANGED <<poseLandmarker, detectorIsLoading, callerResult,
                           nInstances>>
       ELSE CreationFails(c)

\* PoseLandmarker.createFromOptions settles: the new instance is stored and
\* returned, and the finally block clears isLoading.
CreateDone(c, ok) ==
  /\ callerPc[c] = "creating"
  /\ IF ok
       THEN /\ nInstances' = nInstances + 1
            /\ poseLandmarker' = nInstances + 1
            /\ callerResult' = [callerResult EXCEPT ![c] = nInstances + 1]
            /\ callerPc' = [callerPc EXCEPT ![c] = "done"]
            /\ detectorIsLoading' = FALSE
       ELSE CreationFails(c)

\* detectPose(video, timestamp): without an instance it returns null, after
\* calling initPoseDetector() if none is loading; with one it returns the
\* result of detectForVideo, or null when that throws.
DetectPose(ok) ==
  IF poseLandmarker = NoRef
    THEN /\ lastDetect' = "null"
         /\ IF detectorIsLoading
              THEN UNCHANGED <<poseLandmarker, detectorIsLoading, callerPc,
                               callerResult, nInstances>>
              ELSE \E c \in Callers : InitPoseDetector(c)
    ELSE /\ lastDetect' = IF ok THEN "result" ELSE "null"
         /\ UNCHANGED <<poseLandmarker, detectorIsLoading, callerPc,
                        callerResult, nInstances>>

(***************************************************************************)
(* usePlaylistStore.  An item is a pose with an instance id; of a pose the *)
(* model keeps its id, of a saved playlist its id and its items.  The id   *)
(* 'pl-<n>' of a playlist is n.  An instance id is made from the pose id,  *)
(* Date.now() and nine random characters: the model hands out a new number *)
(* at every call.                                                          *)
(***************************************************************************)
PoseIds == {"p1", "p2"}
MaxItems == 2
MaxAddCalls == 3
MaxSavedPlaylists == 3
PlaylistStartClock == 10
MaxPlaylistTicks == 1

\* The playlist ids and instance ids the operations are called with.
PlaylistIds == {1, 2} \cup (PlaylistStartClock..(PlaylistStartClock + MaxPlaylistTicks))
InstanceIds == 1..MaxItems

InitPlaylist ==
  /\ playlist = <<>>
  /\ unsortedPoses = <<>>
  /\ savedPlaylists = <<[id |-> 1, items |-> <<>>], [id |-> 2, items |-> <<>>]>>
  /\ isSidebarOpen = FALSE
  /\ nItems = 0
  /\ playlistNow = PlaylistStartClock

ItemsOf(seq) == {seq[i] : i \in DOMAIN seq}

\* array.filter(p => !ids.includes(p.instanceId))
WithoutInstances(seq, ids) == SelectSeq(seq, LAMBDA p : p.instanceId \notin ids)

\* array.filter(p => ids.includes(p.instanceId))
OnlyInstances(seq, ids) == SelectSeq(seq, LAMBDA p : p.instanceId \in ids)

\* savedPlaylists.map(pl => pl.id === playlistId ? { ...pl, items: f(pl) } : pl)
\* with f(pl) = [...pl.items, ...added]
AppendedTo(playlistId, added) ==
  [i \in DOMAIN savedPlaylists |->
     IF savedPlaylists[i].id = playlistId
       THEN [savedPlaylists[i] EXCEPT !.items = @ \o added]
       ELSE savedPlaylists[i]]

isInUnsorted(poseId) == \E i \in DOMAIN unsortedPoses : unsortedPoses[i].id = poseId

\* The mutant of addToUnsorted: without the duplicate test.
addToUnsortedAlways(poseId) ==
  /\ nItems < MaxItems
  /\ unsortedPoses' =
       Append(unsortedPoses, [id |-> poseId, instanceId |-> nItems + 1])
  /\ nItems' = nItems + 1
  /\ UNCHANGED <<playlist, savedPlaylists, isSidebarOpen, playlistNow>>

addToUnsorted(poseId) ==
  IF \E i \in DOMAIN unsortedPoses : unsortedPoses[i].id = poseId
    THEN UNCHANGED <<playlistVars, nItems, playlistNow>>
    ELSE /\ nItems < MaxItems
         /\ unsortedPoses' =
              Append(unsortedPoses, [id |-> poseId, instanceId |-> nItems + 1])
         /\ nItems' = nItems + 1
         /\ UNCHANGED <<playlist, savedPlaylists, isSidebarOpen, playlistNow>>

moveBatchToPlaylist(playlistId, instanceIds) ==
  LET itemsToMove == OnlyInstances(unsortedPoses, instanceIds) IN
  IF itemsToMove = <<>>
    THEN UNCHANGED <<playlistVars, nItems, playlistNow>>
    ELSE /\ unsortedPoses' = WithoutInstances(unsortedPoses, instanceIds)
         /\ savedPlaylists' = AppendedTo(playlistId, itemsToMove)
         /\ UNCHANGED <<playlist, isSidebarOpen, nItems, playlistNow>>

\* find() takes the first item with the instance id; filter() removes all.
moveFromUnsortedToPlaylist(playlistId, poseInstanceId) ==
  LET found == OnlyInstances(unsortedPoses, {poseInstanceId}) IN
  IF found = <<>>
    THEN UNCHANGED <<playlistVars, nItems, playlistNow>>
    ELSE /\ unsortedPoses' = WithoutInstances(unsortedPoses, {poseInstanceId})
         /\ savedPlaylists' = AppendedTo(playlistId, <<found[1]>>)
         /\ UNCHANGED <<playlist, isSidebarOpen, nItems, playlistNow>>

updatePlaylistItems(playlistId, items) ==
  /\ savedPlaylists' =
       [i \in DOMAIN savedPlaylists |->
          IF savedPlaylists[i].id = playlistId
            THEN [savedPlaylists[i] EXCEPT !.items = items]
            ELSE savedPlaylists[i]]
  /\ UNCHANGED <<playlist, unsortedPoses, isSidebarOpen, nItems, playlistNow>>

\* The new playlist's id is 'pl-' + Date.now().
createNewPlaylist ==
  /\ Len(savedPlaylists) < MaxSavedPlaylists
  /\ savedPlaylists' = Append(savedPlaylists, [id |-> playlistNow, items |-> <<>>])
  /\ UNCHANGED <<playlist, unsortedPoses, isSidebarOpen, nItems, playlistNow>>

deleteSavedPlaylist(playlistId) ==
  /\ savedPlaylists' = SelectSeq(savedPlaylists, LAMBDA pl : pl.id # playlistId)
  /\ UNCHANGED <<playlist, unsortedPoses, isSidebarOpen, nItems, playlistNow>>

setActiveSession(items) ==
  /\ playlist' = items
  /\ UNCHANGED <<unsortedPoses, savedPlaylists, isSidebarOpen, nItems, playlistNow>>

removeFromPlaylist(instanceId) ==
  /\ playlist' = WithoutInstances(playlist, {instanceId})
  /\ UNCHANGED <<unsortedPoses, savedPlaylists, isSidebarOpen, nItems, playlistNow>>

removeFromUnsorted(instanceId) ==
  /\ unsortedPoses' = WithoutInstances(unsortedPoses, {instanceId})
  /\ UNCHANGED <<playlist, savedPlaylists, isSidebarOpen, nItems, playlistNow>>

removeFromSavedPlaylist(playlistId, instanceId) ==
  /\ savedPlaylists' =
       [i \in DOMAIN savedPlaylists |->
          IF savedPlaylists[i].id = playlistId
            THEN [savedPlaylists[i] EXCEPT
                    !.items = WithoutInstances(@, {instanceId})]
            ELSE savedPlaylists[i]]
  /\ UNCHANGED <<playlist, unsortedPoses, isSidebarOpen, nItems, playlistNow>>

clearPlaylist ==
  /\ playlist' = <<>>
  /\ UNCHANGED <<unsortedPoses, savedPlaylists, isSidebarOpen, nItems, playlistNow>>

toggleSidebar ==
  /\ isSidebarOpen' = ~isSidebarOpen
  /\ UNCHANGED <<playlist, unsortedPoses, savedPlaylists, nItems, playlistNow>>

\* splice(fromIndex, 1) and splice(toIndex, 0, movedItem), on 0-based indexes.
Spliced(seq, fromIndex, toIndex) ==
  LET movedItem == seq[fromIndex + 1]
      rest == SubSeq(seq, 1, fromIndex) \o SubSeq(seq, fromIndex + 2, Len(seq))
  IN SubSeq(rest, 1, toIndex) \o <<movedItem>> \o SubSeq(rest, toIndex + 1, Len(rest))

reorderPlaylist(fromIndex, toIndex) ==
  /\ IF fromIndex < 0 \/ fromIndex >= Len(playlist)
          \/ toIndex < 0 \/ toIndex >= Len(playlist)
       THEN UNCHANGED playlist
       ELSE playlist' = Spliced(playlist, fromIndex, toIndex)
  /\ UNCHANGED <<unsortedPoses, savedPlaylists, isSidebarOpen, nItems, playlistNow>>

\* Date.now() advances.
PlaylistTick ==
  /\ playlistNow < PlaylistStartClock + MaxPlaylistTicks
  /\ playlistNow' = playlistNow + 1
  /\ UNCHANGED <<playlistVars, nItems>>

(***************************************************************************)
(* useUIStore: the toast with its auto-hide timeouts, the current view and *)
(* the gallery.  A timeout fires at its due time or later.                 *)
(***************************************************************************)
TOAST_DELAY == 2000

\* The resolution of the clock in the model.
ToastTickMs == 1000
MaxToastTicks == 4
MaxPhotos == 2

ToastMessages == {"Photo saved!", "Added!"}
ViewTypes == {"home", "playlist", "camera", "result"}
NoToast == [at |-> NoTimer, message |-> ""]
HiddenToast == [show |-> FALSE, message |-> ""]

InitUI ==
  /\ toast = HiddenToast
  /\ currentView = "home"
  /\ gallery = <<>>
  /\ toastTimers = {}
  /\ toastNow = 0

showToast(message) ==
  /\ toast' = [show |-> TRUE, message |-> message]
  /\ toastTimers' = toastTimers \cup {toastNow + TOAST_DELAY}
  /\ UNCHANGED <<currentView, gallery, toastNow>>

\* The callback of a timeout set by showToast.
ToastTimerFires(due) ==
  /\ due \in toastTimers
  /\ due <= toastNow
  /\ toastTimers' = toastTimers \ {due}
  /\ toast' = HiddenToast
  /\ UNCHANGED <<currentView, gallery, toastNow>>

hideToast ==
  /\ toast' = HiddenToast
  /\ UNCHANGED <<currentView, gallery, toastTimers, toastNow>>

setView(view) ==
  /\ currentView' = view
  /\ UNCHANGED <<toast, gallery, toastTimers, toastNow>>

addPhoto(photo) ==
  /\ Len(gallery) < MaxPhotos
  /\ gallery' = Append(gallery, photo)
  /\ UNCHANGED <<toast, currentView, toastTimers, toastNow>>

clearGallery ==
  /\ gallery' = <<>>
  /\ UNCHANGED <<toast, currentView, toastTimers, toastNow>>

ToastTick ==
  /\ toastNow < MaxToastTicks * ToastTickMs
  /\ toastNow' = toastNow + ToastTickMs
  /\ UNCHANGED <<toast, currentView, gallery, toastTimers>>

(***************************************************************************)
(* Specifications                                                          *)
(***************************************************************************)
InitEngine ==
  /\ InitSession
  /\ InitPlayback
  /\ InitCaption
  /\ InitFeedback
  /\ InitCapture
  /\ utterance = <<>>
  /\ lastClear = NoTimer
  /\ nFeedbackCalls = 0
  /\ nInbound = 0
  /\ lastInbound = NoMessage
  /\ lastStartIn = NoRef
  /\ coachState = NoCoachState
  /\ InitCamera
  /\ lastImageAt = NoTimer
  /\ InitAICoach
  /\ nCoachCalls = 0
  /\ nApiRequests = 0
  /\ quotaFailed = FALSE
  /\ nCallsInFlight = 0
  /\ InitDetector
  /\ waited = {}
  /\ InitPlaylist
  /\ nAddCalls = 0
  /\ InitUI
  /\ toastShown = NoToast
  /\ toastHidden = FALSE

Init == InitEngine /\ InitCodec(<<>>)

\* The codec is given any array of the model.
InitWithSamples == InitEngine /\ \E samples \in CodecInputs : InitCodec(samples)

notSession == <<playbackVars, captionVars, feedbackVars, captureVars,
                codecVars, coachState, history, appVars>>
notPlayback == <<captionVars, feedbackVars, captureVars, codecVars, coachState,
                 history, appVars>>
notCaption == <<sessionVars, playbackVars, feedbackVars, captureVars, codecVars,
                coachState,
                nFeedbackCalls, nInbound, lastInbound, lastStartIn, appVars>>
notFeedback == <<sessionVars, playbackVars, captureVars, codecVars, coachState,
                 subtitleText,
                 subtitleVisible, subtitleLastUpdate, subtitleTimeout,
                 purgeTimers, utterance, lastClear, nInbound, lastInbound,
                 lastStartIn, appVars>>
notCapture == <<sessionVars, playbackVars, captionVars, feedbackVars, codecVars,
                coachState, history, appVars>>
notCodec == <<sessionVars, playbackVars, captionVars, feedbackVars, captureVars,
              coachState, history, appVars>>

\* The connection state machine: calls of the hook's API and browser events
\* in any order.
Next ==
  \/ (\E ctor \in NewContextStates : ConnectCall(ctor)) /\ UNCHANGED notSession
  \/ (\E a \in Attempts : ResumeDone(a)) /\ UNCHANGED notSession
  \/ (\E a \in Attempts, granted \in BOOLEAN : MicDone(a, granted))
       /\ UNCHANGED notSession
  \/ (\E a \in Attempts : WsOpen(a)) /\ UNCHANGED notSession
  \/ (\E a \in Attempts, loaded \in BOOLEAN :
        \E restOk \in (IF loaded THEN BOOLEAN ELSE {TRUE}) :
           AddModuleDone(a, loaded, restOk)) /\ UNCHANGED notSession
  \/ (\E a \in Attempts : WorkletMessage(a)) /\ UNCHANGED notSession
  \/ (\E a \in Attempts, code \in CloseCodes : WsClosed(a, code))
       /\ UNCHANGED notSession
  \/ Disconnect /\ UNCHANGED notSession
  \/ SendExactFrame /\ UNCHANGED notSession
  \/ SendPoseData /\ UNCHANGED notSession
  \/ SetTargetPose /\ UNCHANGED notSession

Spec == Init /\ [][Next]_vars

\* Audio playback over sessions that follow one another and in which the
\* microphone is granted.
NextPlayback ==
  \/ NoAttemptUnderWay /\ ConnectCall("running") /\ UNCHANGED notSession
  \/ (\E a \in Attempts : MicDone(a, TRUE)) /\ UNCHANGED notSession
  \/ (\E a \in Attempts : WsOpen(a)) /\ UNCHANGED notSession
  \/ Disconnect /\ UNCHANGED notSession
  \/ \E a \in Attempts, payload \in AudioPayloads :
       /\ OnAudioFrame(a, payload)
       /\ lastStartIn' = StartedIn
       /\ UNCHANGED <<captionVars, feedbackVars, captureVars, codecVars,
                      coachState, utterance, lastClear, nFeedbackCalls, nInbound,
                      lastInbound, appVars>>
  \/ (\E due \in resetTimers : ResetTimerFires(due)) /\ UNCHANGED notPlayback
  \/ AudioTick /\ UNCHANGED notPlayback

SpecPlayback == Init /\ [][NextPlayback]_vars

\* The caption: calls of the store's caption operations, the timeouts, time.
NextCaption ==
  \/ \E text \in TextInputs :
       /\ Len(subtitleText) + Len(text) <= MaxCaptionLen
       /\ AppendSubtitle(text)
       /\ utterance' = RunAfter(text)
       /\ UNCHANGED <<notCaption, lastClear>>
  \/ /\ ClearSubtitle
     /\ utterance' = <<>>
     /\ lastClear' = now
     /\ UNCHANGED notCaption
  \/ FadeTimeoutFires /\ UNCHANGED <<notCaption, utterance, lastClear>>
  \/ (\E due \in purgeTimers : PurgeTimeoutFires(due))
       /\ UNCHANGED <<notCaption, utterance, lastClear>>
  \/ CaptionTick /\ UNCHANGED <<notCaption, utterance, lastClear>>

SpecCaption == Init /\ [][NextCaption]_vars

\* The feedback queue: calls of the store's feedback operations, the cleanup
\* timeouts, time.
NextFeedback ==
  \/ \E text \in TextInputs :
       /\ nFeedbackCalls < MaxFeedbackCalls
       /\ AddFeedback(text, nFeedbackCalls + 1)
       /\ nFeedbackCalls' = nFeedbackCalls + 1
       /\ UNCHANGED <<notFeedback, now>>
  \/ CleanupExpiredFeedback /\ UNCHANGED <<notFeedback, now, nFeedbackCalls>>
  \/ (\E due \in feedbackTimers : FeedbackTimerFires(due))
       /\ UNCHANGED <<notFeedback, now, nFeedbackCalls>>
  \/ ClearAllFeedback /\ UNCHANGED <<notFeedback, now, nFeedbackCalls>>
  \/ FeedbackTick /\ UNCHANGED <<notFeedback, feedbackVars, nFeedbackCalls>>

SpecFeedback == Init /\ [][NextFeedback]_vars

\* Inbound messages: a burst of messages, in which no clock advances, in
\* sessions that follow one another.
NextInbound ==
  \/ NoAttemptUnderWay /\ ConnectCall("running") /\ UNCHANGED notSession
  \/ (\E a \in Attempts : MicDone(a, TRUE)) /\ UNCHANGED notSession
  \/ (\E a \in Attempts : WsOpen(a)) /\ UNCHANGED notSession
  \/ Disconnect /\ UNCHANGED notSession
  \/ \E a \in Attempts, msg \in InboundMessages :
       /\ nInbound < MaxInbound
       /\ Len(subtitleText) + Len(msg.text) <= MaxCaptionLen
       /\ OnMessage(a, msg, nFeedbackCalls + 1)
       /\ nInbound' = nInbound + 1
       /\ lastInbound' = msg
       /\ nFeedbackCalls' =
            IF CarriesText(msg) THEN nFeedbackCalls + 1 ELSE nFeedbackCalls
       /\ utterance' = IF CarriesText(msg) THEN RunAfter(msg.text) ELSE utterance
       /\ lastStartIn' = StartedIn
       /\ UNCHANGED <<lastClear, captureVars, codecVars, appVars>>

SpecInbound == Init /\ [][NextInbound]_vars

\* The capture processor: the audio thread calls process() with one block
\* after another, now and then with an input of no channels.
NextCapture ==
  \/ \E block \in Blocks :
       /\ Len(captured) + Len(block) <= MaxCaptured
       /\ Process(<<block>>)
       /\ captured' = captured \o block
       /\ UNCHANGED notCapture
  \/ Process(<<>>) /\ UNCHANGED <<captured, notCapture>>

SpecCapture == Init /\ [][NextCapture]_vars

\* The codec: an array of samples is encoded, and the bytes are decoded.
NextCodec ==
  \/ Encode /\ UNCHANGED notCodec
  \/ Decode /\ UNCHANGED notCodec

SpecCodec == InitWithSamples /\ [][NextCodec]_vars

\* The camera view beside the session: connect and disconnect calls, the
\* microphone and socket events of the session (its capture pipeline is still
\* loading), the effect, the camera and the animation frames.  Animation
\* frames and camera events come at any moment; React runs the effect for a
\* new status before the session's next call or event and before the clock's
\* next tick.
notCamera == <<playbackVars, captionVars, feedbackVars, captureVars, codecVars,
               coachState, history, aiCoachVars, aiCoachHistory, detectorVars,
               waited, playlistVars, playlistAux, uiVars, uiHistory>>

NextCamera ==
  \/ EffectHasRun /\ ConnectCall("running") /\ UNCHANGED notSession
  \/ EffectHasRun /\ (\E a \in Attempts, granted \in BOOLEAN : MicDone(a, granted))
       /\ UNCHANGED notSession
  \/ EffectHasRun /\ (\E a \in Attempts : WsOpen(a)) /\ UNCHANGED notSession
  \/ EffectHasRun /\ (\E a \in Attempts, code \in CloseCodes : WsClosed(a, code))
       /\ UNCHANGED notSession
  \/ EffectHasRun /\ Disconnect /\ UNCHANGED notSession
  \/ LoopEffect /\ UNCHANGED <<notCamera, lastImageAt>>
  \/ CameraLoads /\ UNCHANGED <<notCamera, lastImageAt>>
  \/ CameraFails /\ UNCHANGED <<notCamera, lastImageAt>>
  \/ (\E closure \in StatusValues : StaleCameraLoads(closure))
       /\ UNCHANGED <<notCamera, lastImageAt>>
  \/ (\E closure \in StatusValues : StaleCameraFails(closure))
       /\ UNCHANGED <<notCamera, lastImageAt>>
  \/ /\ camera = "live"
     /\ \E ready \in BOOLEAN : Animate(liveStatus, ready)
     /\ lastImageAt' = IF wire' # wire THEN perfNow ELSE lastImageAt
     /\ UNCHANGED notCamera
  \/ /\ \E closure \in zombieLoops, ready \in BOOLEAN : Animate(closure, ready)
     /\ lastImageAt' = IF wire' # wire THEN perfNow ELSE lastImageAt
     /\ UNCHANGED notCamera
  \/ FrameTick /\ UNCHANGED <<notCamera, lastImageAt>>

SpecCamera == Init /\ [][NextCamera]_vars

\* The coaching hook: calls of triggerFeedback and answers, in any order.
notAICoach == <<sessionVars, playbackVars, captionVars, feedbackVars,
                captureVars, codecVars, coachState, history, cameraVars,
                lastImageAt, detectorVars, waited, playlistVars, playlistAux,
                uiVars, uiHistory>>

NextAICoach ==
  \/ /\ nCoachCalls < MaxCoachCalls
     /\ \E ready \in BOOLEAN, ctx \in BOOLEAN, inline \in BOOLEAN :
          TriggerFeedback(ready, ctx, inline)
     /\ nCoachCalls' = nCoachCalls + 1
     /\ nApiRequests' = nApiRequests + (awaitingApi' - awaitingApi)
     /\ nCallsInFlight' = IF awaitingApi + awaitingLocal > 0
                            THEN nCallsInFlight + 1
                            ELSE nCallsInFlight
     /\ UNCHANGED <<quotaFailed, notAICoach>>
  \/ \E out \in ApiOutcomes :
       /\ ApiCompletes(out)
       /\ quotaFailed' = (quotaFailed \/ IsQuotaFailure(out))
       /\ UNCHANGED <<nCoachCalls, nApiRequests, nCallsInFlight, notAICoach>>
  \/ LocalCompletes /\ UNCHANGED <<aiCoachHistory, notAICoach>>

SpecAICoach == Init /\ [][NextAICoach]_vars

\* The landmarker service: initPoseDetector and detectPose calls and the
\* settling of their promises, in any order.
notDetector == <<sessionVars, playbackVars, captionVars, feedbackVars,
                 captureVars, codecVars, coachState, history, cameraVars,
                 lastImageAt, aiCoachVars, aiCoachHistory, playlistVars,
                 playlistAux, uiVars, uiHistory>>

HaveWaited == waited \cup {c \in Callers : callerPc'[c] = "waiting"}

NextDetector ==
  \/ /\ \E c \in Callers : InitPoseDetector(c)
     /\ waited' = HaveWaited
     /\ UNCHANGED <<lastDetect, notDetector>>
  \/ (\E c \in Callers : WaitWakes(c))
       /\ UNCHANGED <<lastDetect, waited, notDetector>>
  \/ (\E c \in Callers, ok \in BOOLEAN : ResolverDone(c, ok))
       /\ UNCHANGED <<lastDetect, waited, notDetector>>
  \/ (\E c \in Callers, ok \in BOOLEAN : CreateDone(c, ok))
       /\ UNCHANGED <<lastDetect, waited, notDetector>>
  \/ (\E ok \in BOOLEAN : DetectPose(ok)) /\ UNCHANGED <<waited, notDetector>>

SpecDetector == Init /\ [][NextDetector]_vars

\* The playlist store: its operations in any order.  updatePlaylistItems is
\* called with the playlist's items in reverse order or with none, and
\* setActiveSession with the items of a saved playlist, as the views do.
notPlaylist == <<sessionVars, playbackVars, captionVars, feedbackVars,
                 captureVars, codecVars, coachState, history, cameraVars,
                 lastImageAt, aiCoachVars, aiCoachHistory, detectorVars, waited,
                 uiVars, uiHistory>>

Reversed(seq) == [i \in DOMAIN seq |-> seq[Len(seq) + 1 - i]]

NextPlaylist ==
  \/ \E poseId \in PoseIds :
       /\ nAddCalls < MaxAddCalls
       /\ addToUnsorted(poseId)
       /\ nAddCalls' = nAddCalls + 1
       /\ UNCHANGED notPlaylist
  \/ \E playlistId \in PlaylistIds, instanceId \in InstanceIds :
       /\ moveFromUnsortedToPlaylist(playlistId, instanceId)
       /\ UNCHANGED <<nAddCalls, notPlaylist>>
  \/ \E playlistId \in PlaylistIds, instanceIds \in SUBSET InstanceIds :
       /\ moveBatchToPlaylist(playlistId, instanceIds)
       /\ UNCHANGED <<nAddCalls, notPlaylist>>
  \/ \E i \in DOMAIN savedPlaylists :
       \E items \in {<<>>, Reversed(savedPlaylists[i].items)} :
         /\ updatePlaylistItems(savedPlaylists[i].id, items)
         /\ UNCHANGED <<nAddCalls, notPlaylist>>
  \/ /\ createNewPlaylist
     /\ UNCHANGED <<nAddCalls, notPlaylist>>
  \/ \E playlistId \in PlaylistIds :
       /\ deleteSavedPlaylist(playlistId)
       /\ UNCHANGED <<nAddCalls, notPlaylist>>
  \/ \E i \in DOMAIN savedPlaylists :
       /\ setActiveSession(savedPlaylists[i].items)
       /\ UNCHANGED <<nAddCalls, notPlaylist>>
  \/ \E instanceId \in InstanceIds :
       /\ removeFromPlaylist(instanceId)
       /\ UNCHANGED <<nAddCalls, notPlaylist>>
  \/ \E instanceId \in InstanceIds :
       /\ removeFromUnsorted(instanceId)
       /\ UNCHANGED <<nAddCalls, notPlaylist>>
  \/ \E playlistId \in PlaylistIds, instanceId \in InstanceIds :
       /\ removeFromSavedPlaylist(playlistId, instanceId)
       /\ UNCHANGED <<nAddCalls, notPlaylist>>
  \/ /\ clearPlaylist
     /\ UNCHANGED <<nAddCalls, notPlaylist>>
  \/ /\ toggleSidebar
     /\ UNCHANGED <<nAddCalls, notPlaylist>>
  \/ \E fromIndex \in -1..MaxItems, toIndex \in -1..MaxItems :
       /\ reorderPlaylist(fromIndex, toIndex)
       /\ UNCHANGED <<nAddCalls, notPlaylist>>
  \/ PlaylistTick /\ UNCHANGED <<nAddCalls, notPlaylist>>

SpecPlaylist == Init /\ [][NextPlaylist]_vars

\* The UI store: its operations, the timeouts and the clock, in any order.
notUI == <<sessionVars, playbackVars, captionVars, feedbackVars, captureVars,
           codecVars, coachState, history, cameraVars, lastImageAt, aiCoachVars,
           aiCoachHistory, detectorVars, waited, playlistVars, playlistAux>>

NextUI ==
  \/ \E message \in ToastMessages :
       /\ showToast(message)
       /\ toastShown' = [at |-> toastNow, message |-> message]
       /\ toastHidden' = FALSE
       /\ UNCHANGED notUI
  \/ (\E due \in toastTimers : ToastTimerFires(due)) /\ UNCHANGED <<uiHistory, notUI>>
  \/ hideToast /\ toastHidden' = TRUE /\ UNCHANGED <<toastShown, notUI>>
  \/ (\E view \in ViewTypes : setView(view)) /\ UNCHANGED <<uiHistory, notUI>>
  \/ addPhoto("data:image/jpeg") /\ UNCHANGED <<uiHistory, notUI>>
  \/ clearGallery /\ UNCHANGED <<uiHistory, notUI>>
  \/ ToastTick /\ UNCHANGED <<uiHistory, notUI>>

SpecUI == Init /\ [][NextUI]_vars

(***************************************************************************)
(* The claims about the connection state machine, checked under Spec.      *)
(***************************************************************************)

\* C1: in a connected session, the close event of the session's transport
\* that no local close() call preceded sets status to error (never to
\* disconnected), whatever the close code; a close event after a local
\* disconnect() leaves status disconnected.
C1_UnsolicitedCloseIsError ==
  [][\A a \in Attempts, code \in CloseCodes :
       /\ (WsClosed(a, code) /\ status = "connected" /\ wsRef = a
             /\ wsCloseCalls[a] = 0)
          => status' = "error"
       /\ (WsClosed(a, code) /\ status = "disconnected" /\ isDisconnecting
             /\ wsCloseCalls[a] > 0)
          => status' = "disconnected"]_vars

\* C2: while the intentional-disconnect flag is set (disconnect() was called
\* and connect() has not been called since) a connect() call that was
\* suspended commits nothing: status stays disconnected, the engine holds no
\* transport and no microphone stream, and none is open.
C2_DisconnectCancelsConnect ==
  isDisconnecting =>
    /\ status = "disconnected"
    /\ wsRef = NoRef
    /\ streamRef = NoRef
    /\ \A a \in Attempts : pc[a] \in {"resume", "mic", "returned"} =>
          /\ wsState[a] \notin {"CONNECTING", "OPEN"}
          /\ streamState[a] # "live"

\* C3: connect() called while status is connecting or connected is a no-op.
C3_ConnectWhileBusyIsNoOp ==
  [][\A ctor \in NewContextStates :
       (ConnectCall(ctor) /\ status \in {"connecting", "connected"})
         => UNCHANGED vars]_vars

\* C4: status leaves error only in a step that is a call of connect() or of
\* disconnect().
C4_ErrorIsTerminal ==
  [][(status = "error" /\ status' # "error")
       => \/ \E ctor \in NewContextStates : ConnectCall(ctor)
          \/ Disconnect]_vars

\* C5: a call of sendExactFrame, sendPoseData or setTargetPose made while
\* status is not connected writes nothing to a transport.
C5_SendGatedByStatus ==
  [][\A type \in SendTypes :
       (SendFrame(type) /\ status # "connected") => wire' = wire]_vars

\* The state disconnect() leaves: nothing held, status disconnected.
Released ==
  /\ status = "disconnected"
  /\ isDisconnecting
  /\ wsRef = NoRef
  /\ streamRef = NoRef
  /\ audioContextRef = NoRef

\* What a disconnect() step does to the resources the engine held.
DisconnectReleases ==
  Disconnect =>
    /\ Released'
    /\ wsRef # NoRef => wsState'[wsRef] \in {"CLOSING", "CLOSED"}
    /\ streamRef # NoRef => streamState'[streamRef] = "stopped"
    /\ audioContextRef # NoRef => ctxState'[audioContextRef] = "closed"
    /\ \A a \in Attempts : streamStops'[a] <= 1 /\ ctxCloseCalls'[a] <= 1
    /\ Released => UNCHANGED vars

\* C6 as amended: after disconnect(), from any state, status is disconnected
\* and the transport, stream and context the engine held are closed and
\* cleared; the stream and the context have been closed at most once each; a
\* second disconnect() changes nothing.
C6_DisconnectReleasesAll == [][DisconnectReleases]_vars

\* C6 as written: after disconnect() the transport too has been closed at
\* most once.
C6_EachResourceClosedOnce ==
  [][/\ DisconnectReleases
     /\ Disconnect => \A a \in Attempts : wsCloseCalls'[a] <= 1]_vars

\* disconnect() has torn down a whole session: transport, stream, context.
C6_Witness ==
  /\ Released
  /\ \E a \in Attempts :
       /\ wsCloseCalls[a] = 1 /\ wsState[a] = "CLOSING"
       /\ streamStops[a] = 1 /\ streamState[a] = "stopped"
       /\ ctxCloseCalls[a] = 1 /\ ctxState[a] = "closed"

\* C7: when the microphone is denied, that step sets status to error, and the
\* attempt never has a transport (nor a stream).
C7_MicDeniedStops ==
  [][\A a \in Attempts :
       pc'[a] = "denied" =>
         /\ wsState'[a] = "none"
         /\ streamState'[a] = "none"
         /\ wsRef' # a
         /\ pc[a] # "denied" => status' = "error"]_vars

\* A denied attempt, with the error status it left.
C7_Witness ==
  \E a \in Attempts : pc[a] = "denied" /\ status = "error" /\ wsState[a] = "none"

\* C8: when the capture pipeline fails to start on an open transport (the
\* processor module did not load, or the graph could not be built), that step
\* sets status to error and closes the transport; the attempt's transport is
\* never open again, and status becomes connected afterwards only by the open
\* event of another attempt's transport.
C8_PipelineFailureIsFatal ==
  [][\A a \in Attempts :
       /\ (pipe[a] = "loading" /\ pipe'[a] # "loading"
             /\ (processor'[a] = "loadFailed" \/ pipe'[a] = "failed"))
          => /\ status' = "error"
             /\ pipe'[a] = "failed"
             /\ wsState'[a] \in {"CLOSING", "CLOSED"}
       /\ pipe[a] = "failed"
          => /\ wsState'[a] \in {"CLOSING", "CLOSED"}
             /\ (status # "connected" /\ status' = "connected")
                  => \E b \in Attempts \ {a} :
                        wsState[b] = "CONNECTING" /\ wsState'[b] = "OPEN"]_vars

\* A pipeline that failed because the processor module did not load.
C8_Witness ==
  \E a \in Attempts :
    /\ processor[a] = "loadFailed"
    /\ pipe[a] = "failed"
    /\ status = "error"
    /\ wsState[a] = "CLOSING"

(***************************************************************************)
(* The claims about audio playback, checked under SpecPlayback.            *)
(***************************************************************************)
Max(x, y) == IF x >= y THEN x ELSE y

\* C9: each chunk that is scheduled after another starts no earlier than the
\* scheduled end of the one before it and no later than the later of that
\* end and the context's clock at its arrival; the cursor nextStartTime never
\* decreases.
C9_NoOverlapMinimalGap ==
  [][/\ (lastStart' # lastStart /\ lastStart # NoStart) =>
          /\ lastStart'.at >= lastStart.at + lastStart.dur
          /\ lastStart'.at <= Max(lastStart'.now, lastStart.at + lastStart.dur)
     /\ nextStartTime' >= nextStartTime]_vars

\* A chunk that arrived while an earlier one was still to end, queued behind
\* it, in a context whose clock has advanced.
C9_Witness ==
  /\ lastStart.dur > 0
  /\ lastStart.now > 0
  /\ lastStart.at > lastStart.now
  /\ nextStartTime = lastStart.at + lastStart.dur

(***************************************************************************)
(* The claims about the caption, checked under SpecCaption.                *)
(***************************************************************************)

C11_ClearCancelsTimers ==
  [][/\ ClearSubtitle => (subtitleText' = <<>> /\ ~subtitleVisible')
     /\ \A due \in purgeTimers :
          (PurgeTimeoutFires(due) /\ lastClear # NoTimer
             /\ due - SUBTITLE_PURGE_DELAY <= lastClear)
            => UNCHANGED <<subtitleText, subtitleVisible>>]_vars

(***************************************************************************)
(* The claims about the feedback queue, checked under SpecFeedback.        *)
(***************************************************************************)
Items(queue) == {queue[i] : i \in 1..Len(queue)}

C14_QueueBoundedNewestFirst ==
  [][/\ Len(feedbackQueue') <= 3
     /\ \A i, j \in 1..Len(feedbackQueue') :
          i < j => /\ feedbackQueue'[i].timestamp >= feedbackQueue'[j].timestamp
                   /\ feedbackQueue'[i].id > feedbackQueue'[j].id
     /\ \A text \in TextInputs :
          (/\ AddFeedback(text, nFeedbackCalls + 1)
           /\ ~IsThinkingToken(text)
           /\ Len(feedbackQueue) = 3)
            => /\ feedbackQueue'[1].text = text
               /\ feedbackQueue'[1].timestamp = now
               /\ feedbackQueue'[2] = feedbackQueue[1]
               /\ feedbackQueue'[3] = feedbackQueue[2]]_vars

\* A fourth item has entered a full queue: the first one is gone.
C14_Witness ==
  /\ nFeedbackCalls = 4
  /\ Len(feedbackQueue) = 3
  /\ feedbackQueue[1].id = 4
  /\ feedbackQueue[3].id = 2
  /\ now - feedbackQueue[3].timestamp < FEEDBACK_TTL

(***************************************************************************)
(* The claims about inbound messages, checked under SpecInbound.           *)
(***************************************************************************)

\* The texts C12 has discarded: trimmed, the text starts with ** and has
\* another ** after it, or it has fewer than 2 characters.
OpensAndCloses(text) ==
  LET trimmed == Trim(text)
  IN  \/ /\ StartsWith(trimmed, <<"*", "*">>)
         /\ Includes(SubSeq(trimmed, 3, Len(trimmed)), <<"*", "*">>)
      \/ Len(trimmed) < 2

\* The step handles the message msg on the socket of attempt a.
Handles(a, msg) ==
  /\ nInbound' = nInbound + 1
  /\ lastInbound' = msg
  /\ OnMessage(a, msg, nFeedbackCalls + 1)

\* C12: a text that setLastAiFeedback hands on is discarded exactly when,
\* trimmed, it starts with ** and has a closing ** or is shorter than 2
\* characters; a discarded text leaves caption, feedback queue, lastAiFeedback
\* and the timeouts as they were; any other text becomes the end of the
\* caption, the head of the feedback queue and lastAiFeedback.
C12_ThinkingTokenFilter ==
  [][\A a \in Attempts, msg \in InboundMessages :
       (Handles(a, msg) /\ CarriesText(msg)) =>
          IF OpensAndCloses(msg.text)
            THEN UNCHANGED <<captionVars, feedbackVars>>
            ELSE /\ subtitleVisible'
                 /\ subtitleLastUpdate' = now
                 /\ Len(subtitleText') >= Len(msg.text)
                 /\ SubSeq(subtitleText',
                           Len(subtitleText') - Len(msg.text) + 1,
                           Len(subtitleText')) = msg.text
                 /\ feedbackQueue' # <<>>
                 /\ feedbackQueue'[1].text = msg.text
                 /\ lastAiFeedback' = msg.text]_vars

\* The messages C17 has dropped: not JSON, of type error, of an unknown type.
IsDropped(msg) == ~msg.json \/ msg.type \notin {"audio", "text"}

\* C17: an inbound message that is not valid JSON, has an unknown type or has
\* type error changes nothing of the session (status, handles, transport),
\* of playback (cursor, level, speaking flag), of the caption or of the
\* feedback queue.
C17_BadMessagesAreDropped ==
  [][\A a \in Attempts, msg \in InboundMessages :
       (Handles(a, msg) /\ IsDropped(msg)) =>
          UNCHANGED <<sessionVars, playbackVars, captionVars, feedbackVars>>]_vars

\* A dropped message has arrived in a connected session after audio was
\* scheduled and a text was shown.
C17_Witness ==
  /\ IsDropped(lastInbound)
  /\ nInbound = 3
  /\ status = "connected"
  /\ nextStartTime > 0
  /\ subtitleText # <<>>
  /\ feedbackQueue # <<>>

(***************************************************************************)
(* Claims about what is written to the transport, checked under Spec.      *)
(***************************************************************************)

\* Nothing is written to a transport later than the call that supplied it
\* (this holds under Spec): every step that writes is one send call, which
\* writes exactly one frame, of its own type, to a transport that is open, or
\* is the capture pipeline handing on one audio window; a send call that
\* finds no open transport writes nothing.
NoDeferredWrites ==
  [][/\ wire' # wire =>
          \E frame \in SendTypes \cup {"audio"} :
             /\ wire' = Append(wire, frame)
             /\ frame \in SendTypes => (SendGate /\ SendFrame(frame))
             /\ frame = "audio" => \E a \in Attempts : WorkletMessage(a)
     /\ \A type \in SendTypes :
          (SendFrame(type) /\ ~SendGate) => wire' = wire]_vars

\* C15: every frame of a send call that reaches a transport is written in
\* the step of that call, once, and the call was made while status was
\* connected: a call made in any other status is dropped, then and later.
C15_DroppedForGood ==
  [][wire' # wire =>
       \E frame \in SendTypes \cup {"audio"} :
          /\ wire' = Append(wire, frame)
          /\ frame \in SendTypes => (status = "connected" /\ SendFrame(frame))
          /\ frame = "audio" => \E a \in Attempts : WorkletMessage(a)]_vars

(***************************************************************************)
(* The claims about the capture processor, checked under SpecCapture.      *)
(***************************************************************************)
RECURSIVE Flatten(_)
Flatten(frames) ==
  IF frames = <<>> THEN <<>> ELSE Head(frames) \o Flatten(Tail(frames))

\* C16: for the samples fed to the processor so far, in whatever blocks:
\* every posted frame has exactly bufferSize samples, one frame is posted for
\* every full window of input and none for the rest, and the posted frames
\* put end to end are the input cut to a whole number of windows.
C16_WindowsPreserveInput ==
  /\ \A k \in 1..Len(posted) : Len(posted[k]) = bufferSize
  /\ Len(posted) = Len(captured) \div bufferSize
  /\ Flatten(posted) =
       SubSeq(captured, 1, bufferSize * (Len(captured) \div bufferSize))

\* Two windows posted, a part of a third pending, from input of both values.
C16_Witness ==
  /\ Len(posted) = 2
  /\ procIndex > 0
  /\ posted[1] # posted[2]
  /\ \E i \in 1..Len(captured) : captured[i] = 1
  /\ \E i \in 1..Len(captured) : captured[i] = 0

(***************************************************************************)
(* The claims about inbound audio frames.                                  *)
(***************************************************************************)

\* The payloads that cannot be decoded or played: not base64, an odd number
\* of bytes, no bytes.
IsUnplayable(payload) ==
  ~payload.b64ok \/ Len(payload.bytes) % 2 = 1 \/ Len(payload.bytes) = 0

\* C18 (under SpecInbound): an audio frame whose payload cannot be decoded or
\* played changes nothing of the session (status stays as it is) nor of
\* playback: the cursor, the audio level and the speaking flag are as before.
C18_BadAudioIsDropped ==
  [][\A a \in Attempts, msg \in InboundMessages :
       (Handles(a, msg) /\ msg.type = "audio" /\ IsUnplayable(msg.audio)) =>
          /\ status' = status
          /\ nextStartTime' = nextStartTime
          /\ audioLevel' = audioLevel
          /\ isSpeaking' = isSpeaking]_vars

\* C19 (under SpecPlayback): the published audio level is a number in [0,1],
\* that is, between 0 and 100 hundredths.
C19_LevelInUnitInterval == audioLevel \in 0..100

(***************************************************************************)
(* The fade of the caption, checked under SpecCaption.                     *)
(***************************************************************************)

\* C20: after an accepted text at time t = subtitleLastUpdate and no
\* clearSubtitle() since, the caption is visible at every time before
\* t + 2000 ms; from t + 2000 ms on it is visible only until the fade timeout
\* due then has run; an accepted text sets the one fade timeout anew, 2000 ms
\* ahead; and the text is emptied by a timeout only when the caption is not
\* visible.
C20_FadeThenPurge ==
  [][/\ (subtitleLastUpdate' > lastClear' /\ subtitleLastUpdate' > 0
           /\ now' < subtitleLastUpdate' + SUBTITLE_FADE_DELAY)
          => subtitleVisible'
     /\ (subtitleVisible' /\ now' >= subtitleLastUpdate' + SUBTITLE_FADE_DELAY)
          => subtitleTimeout' = subtitleLastUpdate' + SUBTITLE_FADE_DELAY
     /\ \A text \in TextInputs :
          (AppendSubtitle(text) /\ ~IsThinkingToken(text))
            => subtitleTimeout' = now + SUBTITLE_FADE_DELAY
     /\ \A due \in purgeTimers :
          (PurgeTimeoutFires(due) /\ subtitleText # <<>>)
            => ~subtitleVisible]_vars

(***************************************************************************)
(* The end of playback, checked under SpecPlayback.  The cursor            *)
(* nextStartTime is the scheduled end of the latest chunk.                 *)
(***************************************************************************)

\* C21: when the clock of the engine's audio context is past the scheduled
\* end of the latest audio chunk, the audio level is 0 and the speaking flag
\* is false.
C21_SilentAfterLastChunk ==
  (audioContextRef # NoRef /\ ctxTime[audioContextRef] > nextStartTime)
    => (audioLevel = 0 /\ ~isSpeaking)

\* C22: the first chunk that is scheduled in the audio context of a connect()
\* call starts at that context's clock reading at the chunk's arrival,
\* whatever earlier sessions have scheduled.
C22_FreshCursorPerSession ==
  [][(lastStart' # lastStart /\ lastStartIn # audioContextRef)
       => lastStart'.at = lastStart'.now]_vars

(***************************************************************************)
(* The routing of coach state updates, checked under SpecInbound.          *)
(***************************************************************************)

\* C23: when the message handler handles a frame that carries a coach state
\* update, the store's coachState becomes that update, field for field.
C23_CoachStateIsRouted ==
  [][\A a \in Attempts, msg \in InboundMessages :
       (Handles(a, msg) /\ msg.json /\ msg.type = "coach_state")
         => SetCoachState(msg.coach)]_vars

(***************************************************************************)
(* The claims about the PCM codec, checked under SpecCodec.                *)
(***************************************************************************)

\* C24: after encoding and decoding, every sample x in [-1,1] comes back
\* within 1/32768 of x: for x = k / GridDen and the decoded n / 32768,
\* |k - n * GridPerStep| <= GridPerStep.
C24_RoundTripWithinOneStep ==
  codecStage = "decoded" =>
    \A i \in 1..Len(float32Data) :
      float32Data[i] \in -GridDen..GridDen =>
        /\ float32Data[i] - decoded[i] * GridPerStep <= GridPerStep
        /\ decoded[i] * GridPerStep - float32Data[i] <= GridPerStep

\* C25: floatTo16BitPCM returns 2 bytes for every sample; the value encoded
\* for a sample x = k / GridDen is -32768 when x <= -1 and 32767 when x >= 1;
\* for -1 < x < 0 it is x * 32768 and for 0 <= x < 1 it is x * 32767, with
\* the fraction cut off; so it lies in [-32768, 32767] and has the sign of x.
C25_EncodingSaturates ==
  codecStage # "input" =>
    /\ Len(pcmData) = 2 * Len(float32Data)
    /\ \A i \in 1..Len(pcmData) : pcmData[i] \in 0..255
    /\ \A i \in 1..Len(float32Data) :
         LET x == float32Data[i]
             n == GetInt16(pcmData, i - 1)
         IN  /\ n \in -32768..32767
             /\ x <= -GridDen => n = -32768
             /\ x >= GridDen => n = 32767
             /\ (-GridDen < x /\ x < 0) =>
                  /\ n <= 0
                  /\ n * GridPerStep - x \in 0..(GridPerStep - 1)
             /\ (0 <= x /\ x < GridDen) =>
                  /\ n >= 0
                  /\ 32767 * x - n * GridDen \in 0..(GridDen - 1)

\* An array of two samples is encoded: one just below 1, one above 1 that is
\* encoded as 32767.
C25_Witness ==
  /\ codecStage = "encoded"
  /\ Len(float32Data) = 2
  /\ float32Data[1] < GridDen
  /\ float32Data[2] > GridDen
  /\ Len(pcmData) = 4
  /\ GetInt16(pcmData, 0) < 32767
  /\ GetInt16(pcmData, 1) = 32767

(***************************************************************************)
(* More claims about the connection state machine, checked under Spec.     *)
(***************************************************************************)

\* C26: the close event of a transport that is not the engine's current
\* handle, and that a later connect() call has superseded, changes neither
\* status nor the handle.
C26_StaleCloseIsIgnored ==
  [][\A a \in Attempts, code \in CloseCodes :
       (WsClosed(a, code) /\ wsRef # a /\ nAttempts > a)
         => UNCHANGED <<status, wsRef>>]_vars

\* C27: when status is connected the engine's transport handle is set and
\* that transport is open; when status is disconnected the engine holds no
\* transport handle.
C27_StatusMatchesHandle ==
  /\ status = "connected" => (wsRef # NoRef /\ wsState[wsRef] = "OPEN")
  /\ status = "disconnected" => wsRef = NoRef

\* C28: every audio context that is not closed and every microphone stream
\* whose tracks are live is the one the engine references, so there is at
\* most one of each and disconnect() closes it.
C28_NoOrphanedResources ==
  \A a \in Attempts :
    /\ ctxState[a] \in {"suspended", "running"} => audioContextRef = a
    /\ streamState[a] = "live" => streamRef = a

(***************************************************************************)
(* The caption and its stale timeouts, checked under SpecCaption.          *)
(***************************************************************************)

\* C29: whenever the caption is visible its text is not empty.
C29_VisibleCaptionHasText == subtitleVisible => subtitleText # <<>>

(***************************************************************************)
(* The speaking flag while audio is queued, checked under SpecPlayback.    *)
(***************************************************************************)

\* C30: while the clock of the engine's audio context is before the scheduled
\* end of the latest chunk scheduled in that context, the speaking flag is
\* true.
C30_SpeakingWhileQueued ==
  (/\ audioContextRef # NoRef
   /\ lastStartIn = audioContextRef
   /\ ctxTime[audioContextRef] < lastStart.at + lastStart.dur)
    => isSpeaking

(***************************************************************************)
(* The two presentations of inbound texts, checked under SpecInbound.      *)
(***************************************************************************)

ImageWritten == wire' = Append(wire, "image")

C32_FramesOnlyWhileConnected ==
  [][ImageWritten =>
       /\ status = "connected"
       /\ lastImageAt # NoTimer => perfNow - lastImageAt > FRAME_INTERVAL]_vars

(***************************************************************************)
(* C33: once a coaching request has failed for quota exhaustion (an error  *)
(* whose message contains 429, quota or RESOURCE_EXHAUSTED) the hook is    *)
(* rate-limited and shows "AI Offline (Quota Exceeded)", and while it is   *)
(* rate-limited no call of triggerFeedback issues a request.               *)
(***************************************************************************)
C33_QuotaFailureStopsCoach ==
  [][/\ quotaFailed' => (isRateLimited' /\ lastMessage' = OfflineText)
     /\ isRateLimited => nApiRequests' = nApiRequests]_vars

(***************************************************************************)
(* C34: at most one invocation of triggerFeedback is in flight; a call     *)
(* made while one is in flight changes nothing and issues no request; and  *)
(* when an invocation completes, isProcessing.current and isLoading are    *)
(* false, so that the next call passes the in-flight test.                 *)
(***************************************************************************)
InFlight == awaitingApi + awaitingLocal

C34_OneRequestInFlight ==
  /\ [](InFlight <= 1 /\ isProcessing = (InFlight = 1) /\ isLoading = isProcessing)
  /\ [][/\ (nCoachCalls' # nCoachCalls /\ InFlight > 0) =>
            (UNCHANGED aiCoachVars /\ nApiRequests' = nApiRequests)
        /\ InFlight' < InFlight => (~isProcessing' /\ ~isLoading')]_vars

\* A call made during a request was dropped, the request failed, and a later
\* call has issued the second request.
C34_Witness ==
  /\ nCoachCalls = 3
  /\ nCallsInFlight = 1
  /\ nApiRequests = 2
  /\ awaitingApi = 1
  /\ isProcessing
  /\ lastMessage = "Great energy!"

(***************************************************************************)
(* C35: whatever the interleaving of initPoseDetector and detectPose       *)
(* calls, at most one creation of the video-mode landmarker is in          *)
(* progress; once one has succeeded no creation is in progress or starts,  *)
(* one instance exists and every settled caller got it; and a creation     *)
(* that fails leaves isLoading false, so that a later call creates again.  *)
(***************************************************************************)
C35_OneCreationAtATime ==
  /\ [](/\ Cardinality(Creating) <= 1
        /\ detectorIsLoading = (Creating # {})
        /\ poseLandmarker # NoRef =>
             /\ Creating = {}
             /\ nInstances = 1
             /\ \A c \in Callers :
                  callerPc[c] = "done" => callerResult[c] = poseLandmarker)
  /\ [][/\ poseLandmarker # NoRef => Creating' = {}
        /\ \A c \in Callers :
             (callerPc[c] # "failed" /\ callerPc'[c] = "failed") =>
               ~detectorIsLoading']_vars

\* A creation failed, a caller that had waited for it created the instance,
\* and a caller that had waited with it got the same instance.
C35_Witness ==
  /\ callerPc = <<"failed", "done", "done">>
  /\ waited = {2, 3}
  /\ callerResult = <<NoRef, 1, 1>>
  /\ poseLandmarker = 1
  /\ lastDetect = "result"

(***************************************************************************)
(* C36: after moveFromUnsortedToPlaylist or moveBatchToPlaylist every item *)
(* the call removed from unsortedPoses is in exactly one saved playlist,   *)
(* and a call whose playlist id does not exist, or whose instance ids      *)
(* match no unsorted item, leaves the store as it was.                     *)
(***************************************************************************)
\* The number of places of the saved playlists that hold the item.
RECURSIVE Holders(_, _)
Holders(item, lists) ==
  IF lists = <<>>
    THEN 0
    ELSE Cardinality({i \in DOMAIN lists[1].items : lists[1].items[i] = item})
           + Holders(item, Tail(lists))

\* What the claim says of a call with the given arguments.
Conserves(playlistId, instanceIds) ==
  /\ \A item \in ItemsOf(unsortedPoses) \ ItemsOf(unsortedPoses') :
       Holders(item, savedPlaylists') = 1
  /\ ((\A i \in DOMAIN savedPlaylists : savedPlaylists[i].id # playlistId)
       \/ (\A i \in DOMAIN unsortedPoses :
             unsortedPoses[i].instanceId \notin instanceIds))
      => UNCHANGED playlistVars

C36_MovesConserveItems ==
  [][/\ \A playlistId \in PlaylistIds, instanceId \in InstanceIds :
          moveFromUnsortedToPlaylist(playlistId, instanceId) =>
            Conserves(playlistId, {instanceId})
     /\ \A playlistId \in PlaylistIds, instanceIds \in SUBSET InstanceIds :
          moveBatchToPlaylist(playlistId, instanceIds) =>
            Conserves(playlistId, instanceIds)]_vars

(***************************************************************************)
(* C37: whatever operations the store has run, no two items of             *)
(* unsortedPoses have the same pose id; addToUnsorted called with a pose   *)
(* whose id is in unsortedPoses leaves the store as it was.                *)
(***************************************************************************)
C37_UnsortedHasNoDuplicates ==
  /\ [](\A i, j \in DOMAIN unsortedPoses :
          unsortedPoses[i].id = unsortedPoses[j].id => i = j)
  /\ [][\A poseId \in PoseIds :
          (nAddCalls' # nAddCalls /\ addToUnsorted(poseId) /\ isInUnsorted(poseId))
            => UNCHANGED <<playlistVars, nItems>>]_vars

\* Poses p1 and p2 were added and are unsorted, and one more addToUnsorted
\* call has been made, which added nothing.
C37_Witness ==
  /\ nAddCalls = 3
  /\ nItems = 2
  /\ unsortedPoses = <<[id |-> "p1", instanceId |-> 1], [id |-> "p2", instanceId |-> 2]>>

(***************************************************************************)
(* C38: for 2 seconds after a showToast call, unless hideToast is called   *)
(* in between, the toast is visible with the message of that call: the     *)
(* timeout of an earlier call does not hide it.                            *)
(***************************************************************************)
C38_ToastStaysTwoSeconds ==
  (toastShown # NoToast /\ ~toastHidden
     /\ toastNow - toastShown.at < TOAST_DELAY)
    => toast = [show |-> TRUE, message |-> toastShown.message]

====
